---- MODULE Spec2Model ----
(***************************************************************************)
(* Model of the rust-autohedge trading core: the Position Tracker, the     *)
(* Position Monitor (quote-driven), the two Execution engines, the Risk    *)
(* gate on the exit path and the broadcast event bus.                      *)
(*                                                                         *)
(* Prices are integers (price units chosen so that the percentages below   *)
(* are exact); quantities are small integers.  Time is measured in ticks   *)
(* and every timestamp is kept as a saturating age.  The exchange adapter  *)
(* is the environment: every call returns one of the outcomes the venue    *)
(* can produce.                                                            *)
(***************************************************************************)
EXTENDS Integers, Sequences, FiniteSets, Bags, TLC

----------------------------------------------------------------------------
\* Bounds of the model

\* symbols traded
Symbols == {"BTC"}

\* venue order ids are 1..MaxOrderId (0 stands for None)
MaxOrderId == 2

\* spawned risk / execution tasks alive at the same time
MaxTasks == 2

\* quantities the venue can report are 1..MaxQty
MaxQty == 2

\* quantity produced by order sizing
OrderQty == 2

\* price of the quotes in the Market Store
BasePrice == 1000

\* the 30 s recreate cooldown, in ticks
RECREATE_COOLDOWN_TICKS == 1

\* slots of the broadcast channel, events published in one run
BusCapacity == 2
MaxPublished == 3

\* program constants
\* RateLimiter: concurrent callers, min_interval in clock ticks, clock range
NumCallers == 2
MinIntervalTicks == 2
MaxClock == 2

\* MarketStore: largest history_limit, insertions per history
MaxHistoryLimit == 2
MaxInserted == 3

\* largest amount by which a limit buy fills below its limit price
MaxImprovement == 1

\* compute_order_sizing: largest price, buying power (in units of 20),
\* order amount and target percentage (in units of 5) tried
MaxPrice == 2
MaxBalanceUnits == 2
MaxAmount == 40
MaxPctUnits == 2

\* aggressive_limit_price: largest bid/ask and aggression (in units of
\* BpsStep, either sign) tried
MaxQuote == 4
MaxBpsUnits == 2
BpsStep == 2500

\* AccountCache: invalidations made
MaxInvalidations == 2

MAX_RECREATE_ATTEMPTS == 3
DEFAULT_AGGRESSION_BPS == 5
DEFAULT_TP_BPS == 100
DEFAULT_SL_BPS == 50

None == 0
NoTime == -1

Qtys == 1..MaxQty
OrderIds == 1..MaxOrderId

----------------------------------------------------------------------------
VARIABLES
    engine,          \* "fast" (strategy_mode = hft) or "standard"
    positions,       \* PositionTracker.positions: symbol -> PositionInfo
    pending_orders,  \* PositionTracker.pending_orders: order_id -> PendingOrder
    store,           \* MarketStore latest quote per symbol (0 = no quote)
    rate_limiter,    \* RateLimiter.last_order_per_symbol: symbols with an entry
    next_id,         \* next order id the venue hands out
    tasks,           \* bag of spawned Risk / Execution tasks
    mon,             \* the Position Monitor task
    recreations,     \* per symbol: recreate attempts made for the tracked position
    obs,             \* what the step just taken did
    bus,             \* the broadcast channel and its consumers
    limiter,         \* the RateLimiter and the try_acquire calls in progress
    history,         \* the MarketStore histories and what was inserted
    sizing,          \* a call of compute_order_sizing, its arguments and result
    pricing,         \* a call of aggressive_limit_price, its arguments and result
    cache,           \* the AccountCache and the buying_power calls in progress
    strat,           \* the Strategy engine, its quote handlers and what it emitted
    life,            \* the trading handle and the tasks spawned by start_trading
    ingest,          \* the market-data reader, the latest quotes it stored and the events it published
    trk,             \* a PositionTracker and the method calls in progress on it
    llm,             \* the Strategy loop in LLM mode, its cooldown entry and analyses
    llm_queue        \* the LLM queue, its two channels, its processor and the calls in flight

core_vars == <<engine, positions, pending_orders, store, rate_limiter,
               next_id, tasks, mon, recreations, obs>>

\* the state of the sub-systems modelled on their own
side_vars == <<bus, limiter, history, sizing, pricing, cache, strat, life, ingest, trk, llm, llm_queue>>

\* all but one sub-system
not_bus == <<core_vars, limiter, history, sizing, pricing, cache, strat, life, ingest, trk, llm, llm_queue>>
not_limiter == <<core_vars, bus, history, sizing, pricing, cache, strat, life, ingest, trk, llm, llm_queue>>
not_history == <<core_vars, bus, limiter, sizing, pricing, cache, strat, life, ingest, trk, llm, llm_queue>>
not_sizing == <<core_vars, bus, limiter, history, pricing, cache, strat, life, ingest, trk, llm, llm_queue>>
not_pricing == <<core_vars, bus, limiter, history, sizing, cache, strat, life, ingest, trk, llm, llm_queue>>
not_cache == <<core_vars, bus, limiter, history, sizing, pricing, strat, life, ingest, trk, llm, llm_queue>>
not_strat == <<core_vars, bus, limiter, history, sizing, pricing, cache, life, ingest, trk, llm, llm_queue>>
not_life == <<core_vars, bus, limiter, history, sizing, pricing, cache, strat, ingest, trk, llm, llm_queue>>
not_ingest == <<core_vars, bus, limiter, history, sizing, pricing, cache, strat, life, trk, llm, llm_queue>>
not_trk == <<core_vars, bus, limiter, history, sizing, pricing, cache, strat, life, ingest, llm, llm_queue>>
not_llm == <<core_vars, bus, limiter, history, sizing, pricing, cache, strat, life, ingest, trk, llm_queue>>
not_llm_queue == <<core_vars, bus, limiter, history, sizing, pricing, cache, strat, life, ingest, trk, llm>>

vars == <<core_vars, side_vars>>

----------------------------------------------------------------------------
\* Configuration

\* config.get_symbol_params: (tp_pct, sl_pct) with per-symbol overrides, in bps
get_symbol_params(s) == [tp |-> DEFAULT_TP_BPS, sl |-> DEFAULT_SL_BPS]

TakeProfitOf(s, p) == p + (p * get_symbol_params(s).tp) \div 10000
StopLossOf(s, p) == p - (p * get_symbol_params(s).sl) \div 10000

\* prices a market event can carry: at the stop, at entry, at the target
EventPrices == {StopLossOf("BTC", BasePrice), BasePrice, TakeProfitOf("BTC", BasePrice)}

----------------------------------------------------------------------------
\* Position Tracker

MapRemove(m, k) == [x \in (DOMAIN m) \ {k} |-> m[x]]
MapPut(m, k, v) == [x \in (DOMAIN m) \cup {k} |-> IF x = k THEN v ELSE m[x]]

\* PositionTracker::add_pending_order (last_check_time is always Some
\* afterwards; the age of that Instant is an input of the Monitor's check)
add_pending_order(po, id, order) == MapPut(po, id, order)

\* PositionTracker::remove_pending_order
remove_pending_order(po, id) == MapRemove(po, id)

\* PositionTracker::add_position: forces is_closing = false and overwrites
add_position(ps, s, info) == MapPut(ps, s, [info EXCEPT !.is_closing = FALSE])

\* PositionTracker::mark_closing
mark_closing(ps, s) ==
    IF s \in DOMAIN ps THEN [ps EXCEPT ![s].is_closing = TRUE] ELSE ps

\* PositionTracker::remove_position
remove_position(ps, s) == MapRemove(ps, s)

\* PositionTracker::has_position
has_position(ps, s) == s \in DOMAIN ps

PendingOrder(s, side, limit, qty) ==
    [symbol |-> s, side |-> side, limit_price |-> limit, qty |-> qty]

\* placed is history, not a field of the struct: how many of the attempts
\* counted in recreate_attempts ended with a protective sell placed
PositionInfo(s, entry, qty, oid) ==
    [entry_price |-> entry, qty |-> qty,
     stop_loss |-> StopLossOf(s, entry), take_profit |-> TakeProfitOf(s, entry),
     is_closing |-> FALSE, open_order_id |-> oid,
     last_recreate_attempt |-> NoTime, recreate_attempts |-> 0, placed |-> 0]

\* history: an attempt made by the position checks (the ones counted in
\* recreate_attempts) has placed its sell
Placed(p, caller) == IF caller = "police" THEN [p EXCEPT !.placed = @ + 1] ELSE p

\* history of the orphan flow: the number of recreate_limit_sell_order calls
\* the Monitor has made for the position now tracked under each symbol.
\* how = "new": a new PositionInfo was registered for s; "attempt": one more
\* call for s; "same": neither
Recount(rc, ps, s, how) ==
    [x \in Symbols |->
        IF ~has_position(ps, x) THEN 0
        ELSE IF x # s THEN rc[x]
        ELSE CASE how = "new" -> 0
               [] how = "attempt" -> rc[x] + 1
               [] OTHER -> rc[x]]

----------------------------------------------------------------------------
\* Observations and tasks

\* op: the handler that completed; id, qty, price: the order it dealt with;
\* fill: the price at which the venue filled the buy;
\* venue: the qty the venue reported (0 = none); tracked: the qty the Tracker
\* had before; subs: submit_order calls made; end, found, expired, pre, sig:
\* set when a Monitor iteration ends
NoObs == [op |-> "none", sym |-> "", id |-> None, qty |-> 0, price |-> 0,
          venue |-> 0, tracked |-> 0, subs |-> 0,
          fill |-> 0, end |-> FALSE, found |-> {}, expired |-> {}, pre |-> "",
          sig |-> ""]
Obs(op, s, id, qty, price) == [NoObs EXCEPT !.op = op, !.sym = s, !.id = id,
                                            !.qty = qty, !.price = price]

Task(kind, s, pc, price, qty, id) ==
    [kind |-> kind, sym |-> s, pc |-> pc, price |-> price, qty |-> qty, id |-> id]

Spawn(b, t) == b (+) SetToBag({t})
Finish(b, t) == b (-) SetToBag({t})
Move(b, t, u) == (b (-) SetToBag({t})) (+) SetToBag({u})
NumTasks == BagCardinality(tasks)
TaskSet == BagToSet(tasks)

\* the Monitor between two events; found, expired (pending sells found
\* cancelled at the venue, or dropped by age), pre and sig record what the current
\* event-loop iteration has seen and done
IdleMon == [pc |-> "idle", sym |-> "", price |-> 0, snap |-> <<>>, todo |-> {},
            cur |-> None, pos |-> <<>>, qty |-> 0, caller |-> "", sync |-> {},
            venue |-> 0, fill |-> 0, subs |-> 0, found |-> {}, expired |-> {},
            pre |-> "", sig |-> ""]

\* prices returned by aggressive_limit_price are in units of 1/PriceScale,
\* in which mid = (bid + ask) / 2 and offset = mid * bps / 10000 are whole
PriceScale == 2 * 10000

\* variant: the offset is applied without the clamp to the quote
aggressive_limit_price_unclamped(bid, ask, side, aggression_bps) ==
    LET mid == (bid + ask) * 10000
        offset == (bid + ask) * aggression_bps
    IN IF side = "buy" THEN mid + offset ELSE mid - offset

\* services::execution_utils::aggressive_limit_price
aggressive_limit_price(bid, ask, side, aggression_bps) ==
    LET mid == (bid + ask) * 10000
        offset == (bid + ask) * aggression_bps
    IN IF side = "buy"
       THEN (IF mid + offset < ask * PriceScale THEN mid + offset ELSE ask * PriceScale)
       ELSE (IF mid - offset > bid * PriceScale THEN mid - offset ELSE bid * PriceScale)

\* RateLimiter::try_acquire: allowed unless the symbol has an entry younger
\* than min_interval (recent)
try_acquire_ok(rl, s, recent) == ~(s \in rl /\ recent)

----------------------------------------------------------------------------
\* Environment: market data, order requests, time

\* exchange::ws stream: a valid quote is written to the Market Store
StreamQuote(s) ==
    /\ store[s] = 0
    /\ store' = [store EXCEPT ![s] = BasePrice]
    /\ obs' = NoObs
    /\ UNCHANGED <<side_vars, recreations, engine, positions, pending_orders, rate_limiter,
                   next_id, tasks, mon>>

\* services::risk assess_risk for a buy signal: an Order(buy) event reaches the
\* Execution loop, which spawns one execution task for it
OrderBuy(s) ==
    /\ NumTasks < MaxTasks
    /\ tasks' = Spawn(tasks, Task("buy", s, "start", 0, 0, None))
    /\ obs' = NoObs
    /\ UNCHANGED <<side_vars, recreations, engine, positions, pending_orders, store,
                   rate_limiter, next_id, mon>>

Age(a, cap) == IF a = NoTime \/ a >= cap THEN a ELSE a + 1

AgePositions(ps) ==
    [s \in DOMAIN ps |->
        [ps[s] EXCEPT !.last_recreate_attempt = Age(@, RECREATE_COOLDOWN_TICKS)]]

\* one tick of time passes: every Instant grows older
Tick ==
    /\ positions' = AgePositions(positions)
    /\ positions' # positions
    /\ obs' = NoObs
    /\ UNCHANGED <<side_vars, recreations, engine, pending_orders, store, rate_limiter, next_id, tasks, mon>>

----------------------------------------------------------------------------
\* Execution engine, fast (services/execution_fast.rs)

\* execute_fast up to submit_order: rate limit, duplicate checks, quote,
\* then buying_power().await, compute_order_sizing and the optional LLM
\* filter (ok: all three let the order through)
ExecFastCheck(t, recent, ok) ==
    /\ engine = "fast" /\ t.kind = "buy" /\ t.pc = "start"
    /\ obs' = NoObs
    /\ IF ~try_acquire_ok(rate_limiter, t.sym, recent)
       THEN /\ tasks' = Finish(tasks, t)
            /\ UNCHANGED rate_limiter
       ELSE /\ rate_limiter' = rate_limiter \cup {t.sym}
            /\ IF \/ has_position(positions, t.sym)
                  \/ \E id \in DOMAIN pending_orders : pending_orders[id].symbol = t.sym
                  \/ store[t.sym] = 0
                  \/ ~ok
               THEN tasks' = Finish(tasks, t)
               ELSE tasks' = Move(tasks, t,
                        [t EXCEPT !.pc = "submit", !.qty = OrderQty,
                                  !.price = aggressive_limit_price(store[t.sym], store[t.sym],
                                               "buy", DEFAULT_AGGRESSION_BPS)
                                             \div PriceScale])
    /\ UNCHANGED <<side_vars, recreations, engine, positions, pending_orders, store, next_id, mon>>

\* exchange.submit_order(api_req).await
ExecFastSubmit(t, ok) ==
    /\ engine = "fast" /\ t.kind = "buy" /\ t.pc = "submit"
    /\ obs' = NoObs
    /\ IF ok /\ next_id <= MaxOrderId
       THEN /\ tasks' = Move(tasks, t, [t EXCEPT !.pc = "acked", !.id = next_id])
            /\ next_id' = next_id + 1
       ELSE /\ tasks' = Finish(tasks, t)
            /\ UNCHANGED next_id
    /\ UNCHANGED <<side_vars, recreations, engine, positions, pending_orders, store,
                   rate_limiter, mon>>

\* after account_cache.invalidate().await: register the pending buy, publish
\* the report; the task completes
ExecFastRegister(t) ==
    /\ engine = "fast" /\ t.kind = "buy" /\ t.pc = "acked"
    /\ pending_orders' = add_pending_order(pending_orders, t.id,
                             PendingOrder(t.sym, "buy", t.price, t.qty))
    /\ tasks' = Finish(tasks, t)
    /\ obs' = Obs("buy_done", t.sym, t.id, t.qty, t.price)
    /\ UNCHANGED <<side_vars, recreations, engine, positions, store, rate_limiter, next_id, mon>>

----------------------------------------------------------------------------
\* Execution engine, standard (services/execution.rs)

\* execute_order buy path up to submit_order: hft_buy or the agent's decision,
\* the estimated price from the quote history, get_account().await and the
\* balance check (ok: the agent says buy and the balance suffices)
ExecStdPrepare(t, ok) ==
    /\ engine = "standard" /\ t.kind = "buy" /\ t.pc = "start"
    /\ tasks' = IF ok /\ store[t.sym] # 0
                THEN Move(tasks, t, [t EXCEPT !.pc = "submit", !.price = store[t.sym],
                                              !.qty = OrderQty])
                ELSE Finish(tasks, t)
    /\ obs' = NoObs
    /\ UNCHANGED <<side_vars, recreations, engine, positions, pending_orders, store,
                   rate_limiter, next_id, mon>>

\* exchange.submit_order(api_req).await; on Ok the pending buy is registered
\* and the report published without a further await
ExecStdSubmit(t, ok) ==
    /\ engine = "standard" /\ t.kind = "buy" /\ t.pc = "submit"
    /\ tasks' = Finish(tasks, t)
    /\ IF ok /\ next_id <= MaxOrderId
       THEN /\ pending_orders' = add_pending_order(pending_orders, next_id,
                                     PendingOrder(t.sym, "buy", t.price, t.qty))
            /\ next_id' = next_id + 1
            /\ obs' = Obs("buy_done", t.sym, next_id, t.qty, t.price)
       ELSE /\ obs' = NoObs
            /\ UNCHANGED <<pending_orders, next_id>>
    /\ UNCHANGED <<side_vars, recreations, engine, positions, store, rate_limiter, mon>>

----------------------------------------------------------------------------
\* Sell path (execute_sell in execution_fast.rs, the sell branch of
\* execute_order in execution.rs)

\* price from the latest quote; qty from the Tracker when it has the position,
\* else from exchange.get_positions().await (q; 0 = not found or error)
ExecSellStart(t, q) ==
    /\ t.kind = "sell" /\ t.pc = "start"
    /\ LET qty == IF has_position(positions, t.sym) THEN positions[t.sym].qty ELSE q
       IN tasks' = IF store[t.sym] = 0 \/ qty <= 0 THEN Finish(tasks, t)
                   ELSE Move(tasks, t, [t EXCEPT !.pc = "submit", !.price = store[t.sym],
                                                 !.qty = qty])
    /\ obs' = NoObs
    /\ UNCHANGED <<side_vars, recreations, engine, positions, pending_orders, store,
                   rate_limiter, next_id, mon>>

\* variant: the position is dropped as soon as the sell is sent
positions_after_sell_eager(ps, s, ok) == remove_position(ps, s)

\* the match on submit_order's result: Ok removes the position, Err logs
positions_after_sell(ps, s, ok) == IF ok THEN remove_position(ps, s) ELSE ps

\* exchange.submit_order(market sell).await; the position is removed on Ok
ExecSellSubmit(t, ok) ==
    /\ t.kind = "sell" /\ t.pc = "submit"
    /\ tasks' = Finish(tasks, t)
    /\ positions' = positions_after_sell(positions, t.sym, ok)
    /\ obs' = Obs(IF ok THEN "sell_done" ELSE "sell_failed", t.sym, None, t.qty, t.price)
    /\ UNCHANGED <<side_vars, engine, pending_orders, store, rate_limiter,
                   next_id, mon>>
    /\ recreations' = Recount(recreations, positions', t.sym, "same")

----------------------------------------------------------------------------
\* Risk gate (services/risk.rs) on a sell signal of the Monitor: the thesis
\* does not start with "HFT", so the account is fetched and the Risk agent
\* asked; the Order(sell) is published only when the answer is an approval

assess_risk(t, approved) ==
    /\ t.kind = "risk"
    /\ tasks' = IF approved THEN Move(tasks, t, Task("sell", t.sym, "start", 0, 0, None))
                            ELSE Finish(tasks, t)
    /\ obs' = NoObs
    /\ UNCHANGED <<side_vars, recreations, engine, positions, pending_orders, store,
                   rate_limiter, next_id, mon>>

----------------------------------------------------------------------------
\* Exchange adapter outcomes

\* get_positions(): an error, the symbol absent from the list, or its qty
VenuePositions == {[kind |-> "err", qty |-> 0], [kind |-> "absent", qty |-> 0]}
                  \cup {[kind |-> "qty", qty |-> q] : q \in 0..MaxQty}

\* get_positions() as sync_positions reads it: a list of entries, each with
\* a symbol, a qty and an avg_entry_price (0 = missing); the list may name a
\* symbol more than once
VenueHoldings == {[symbol |-> s, qty |-> q, avg_entry_price |-> a] :
                     s \in Symbols, q \in Qtys, a \in {0, BasePrice}}
SyncResults == {[kind |-> "err", list |-> {}]}
               \cup {[kind |-> "ok", list |-> l] : l \in SUBSET VenueHoldings}

\* get_order(): an error, or a status; filled carries filled_qty in the raw
\* response (qty 0: the field is missing) and the average fill price, which
\* for a limit order is the limit price or better (improve: by how much)
OrderStatuses == {[status |-> st, qty |-> 0, improve |-> 0] :
                     st \in {"err", "open", "canceled", "expired"}}
                 \cup {[status |-> "filled", qty |-> q, improve |-> i] :
                         q \in 0..MaxQty, i \in 0..MaxImprovement}

\* error texts of submit_order, by the substrings the Monitor looks for
ErrorMsgs == {[has403 |-> TRUE, has40310000 |-> TRUE, phrase |-> FALSE],
              [has403 |-> FALSE, has40310000 |-> FALSE, phrase |-> TRUE],
              [has403 |-> TRUE, has40310000 |-> FALSE, phrase |-> FALSE],
              [has403 |-> FALSE, has40310000 |-> FALSE, phrase |-> FALSE]}

\* error::is_insufficient_balance_error, inlined in recreate_limit_sell_order
is_insufficient_balance_error(m) == (m.has403 /\ m.has40310000) \/ m.phrase

\* submit_order(): acknowledged, or one of the error texts
SubmitOutcomes == {[ok |-> TRUE, msg |-> CHOOSE m \in ErrorMsgs : ~m.has403 /\ ~m.phrase]}
                  \cup {[ok |-> FALSE, msg |-> m] : m \in ErrorMsgs}

\* the venue acknowledges only while it has order ids left
Acked(o) == o.ok /\ next_id <= MaxOrderId

----------------------------------------------------------------------------
\* Position Monitor (services/position_monitor.rs), quote-driven

\* the end of an event-loop iteration (continue / end of the loop body)
EndIteration(m) ==
    /\ mon' = IdleMon
    /\ obs' = [NoObs EXCEPT !.op = "iter_end", !.sym = m.sym, !.price = m.price,
                            !.end = TRUE, !.found = m.found, !.expired = m.expired, !.pre = m.pre,
                            !.sig = m.sig]

\* return of recreate_limit_sell_order to its caller
ReturnFromRecreate(m, o) ==
    LET ob == [o EXCEPT !.tracked = m.pos.qty, !.venue = m.venue]
    IN IF m.caller = "police"
       THEN /\ mon' = IdleMon
            /\ obs' = [ob EXCEPT !.end = TRUE, !.found = m.found, !.expired = m.expired, !.pre = m.pre,
                                  !.sig = m.sig]
       ELSE /\ mon' = [m EXCEPT !.pc = IF m.caller = "sync" THEN "sync_loop" ELSE "orders",
                                !.pos = <<>>, !.qty = 0, !.caller = "", !.cur = None,
                                !.venue = 0, !.subs = 0]
            /\ obs' = ob

\* sync_positions: exchange.get_positions().await
MonSyncFetch(r) ==
    /\ mon.pc = "sync_start"
    /\ mon' = IF r.kind = "err" THEN IdleMon
              ELSE [mon EXCEPT !.pc = "sync_loop", !.sync = r.list]
    /\ obs' = NoObs
    /\ UNCHANGED <<side_vars, recreations, engine, positions, pending_orders, store,
                   rate_limiter, next_id, tasks>>

\* variant: a venue position replaces the one tracked under its symbol
sync_adopts_tracked(ps, p) == p.avg_entry_price > 0

\* sync_positions: the venue position is skipped when its symbol is tracked
\* and when it carries no positive avg_entry_price
sync_adopts(ps, p) == ~has_position(ps, p.symbol) /\ p.avg_entry_price > 0

\* sync_positions: one turn of the loop over the venue's positions
MonSyncNext ==
    /\ mon.pc = "sync_loop"
    /\ obs' = NoObs
    /\ IF mon.sync = {}
       THEN /\ mon' = IdleMon
            /\ UNCHANGED positions
       ELSE \E p \in mon.sync :
              IF ~sync_adopts(positions, p)
              THEN /\ mon' = [mon EXCEPT !.sync = @ \ {p}]
                   /\ UNCHANGED positions
              ELSE LET pos_info == PositionInfo(p.symbol, p.avg_entry_price, p.qty, None)
                   IN /\ positions' = add_position(positions, p.symbol, pos_info)
                      /\ mon' = [mon EXCEPT !.sync = @ \ {p}, !.pc = "rc_fetch",
                                            !.sym = p.symbol, !.pos = pos_info,
                                            !.caller = "sync"]
    /\ UNCHANGED <<side_vars, engine, pending_orders, store, rate_limiter,
                   next_id, tasks>>
    /\ recreations' = Recount(recreations, positions', mon'.sym, IF mon'.pc = "rc_fetch" THEN "new" ELSE "same")

\* variant: a failed get_positions() is read as "not on the exchange"
verify_holdings_strict(r, position) ==
    IF r.kind = "qty" THEN [actual_qty |-> r.qty, position_exists |-> TRUE]
    ELSE [actual_qty |-> 0, position_exists |-> FALSE]

\* recreate_limit_sell_order: (actual_qty, position_exists) out of the result
\* of get_positions(); an error keeps the tracked qty and assumes the position
verify_holdings(r, position) ==
    CASE r.kind = "qty" -> [actual_qty |-> r.qty, position_exists |-> TRUE]
      [] r.kind = "absent" -> [actual_qty |-> 0, position_exists |-> FALSE]
      [] r.kind = "err" -> [actual_qty |-> position.qty, position_exists |-> TRUE]

\* what the first get_positions() of a recreation answered
FetchOp(r) == CASE r.kind = "absent" -> "recreate_absent"
                [] r.kind = "err" -> "recreate_fetch_err"
                [] r.kind = "qty" -> "recreate_removed"

\* recreate_limit_sell_order: exchange.get_positions().await and the
\* reconciliation of the qty
MonRecreateFetch(r) ==
    /\ mon.pc = "rc_fetch"
    /\ LET position == mon.pos
           s == mon.sym
           held == verify_holdings(r, position)
           actual_qty == held.actual_qty
           final_qty == actual_qty
       IN IF ~held.position_exists \/ final_qty <= 0
          THEN /\ positions' = remove_position(positions, s)
               /\ ReturnFromRecreate(mon, Obs(FetchOp(r), s, None, 0, 0))
          ELSE /\ positions' = IF actual_qty # position.qty
                               THEN add_position(positions, s,
                                        [position EXCEPT !.qty = actual_qty])
                               ELSE positions
               /\ mon' = [mon EXCEPT !.pc = "rc_submit", !.qty = final_qty,
                                     !.venue = IF r.kind = "qty" THEN r.qty ELSE 0]
               /\ obs' = IF r.kind = "err" THEN Obs(FetchOp(r), s, None, 0, 0) ELSE NoObs
    /\ UNCHANGED <<side_vars, engine, pending_orders, store, rate_limiter,
                   next_id, tasks>>
    /\ recreations' = Recount(recreations, positions', mon.sym, "same")

\* the position written back when the protective sell is acknowledged
recreated_position(position, final_qty, id) == [position EXCEPT !.open_order_id = id]

\* recreate_limit_sell_order: exchange.submit_order(tp_req).await
MonRecreateSubmit(o) ==
    /\ mon.pc = "rc_submit"
    /\ LET position == mon.pos
           s == mon.sym
       IN IF Acked(o)
          THEN /\ positions' = add_position(positions, s,
                                   Placed(recreated_position(position, mon.qty, next_id),
                                          mon.caller))
               /\ pending_orders' = add_pending_order(pending_orders, next_id,
                                        PendingOrder(s, "sell", position.take_profit, mon.qty))
               /\ next_id' = next_id + 1
               /\ ReturnFromRecreate(mon, [Obs("recreated", s, next_id, mon.qty,
                                                position.take_profit) EXCEPT !.subs = 1])
          ELSE /\ UNCHANGED <<positions, pending_orders, next_id>>
               /\ IF ~o.ok /\ is_insufficient_balance_error(o.msg)
                  THEN /\ mon' = [mon EXCEPT !.pc = "rc_refetch", !.subs = 1]
                       /\ obs' = NoObs
                  ELSE ReturnFromRecreate(mon, [Obs("recreate_failed", s, None, mon.qty, 0)
                                                  EXCEPT !.subs = 1])
    /\ UNCHANGED <<side_vars, engine, store, rate_limiter, tasks>>
    /\ recreations' = Recount(recreations, positions', mon.sym, "same")

\* insufficient balance: exchange.get_positions().await a second time
MonRecreateRefetch(r) ==
    /\ mon.pc = "rc_refetch"
    /\ LET position == mon.pos
           s == mon.sym
       IN CASE r.kind = "err" ->
                 /\ UNCHANGED positions
                 /\ ReturnFromRecreate(mon, Obs("recreate_failed", s, None, mon.qty, 0))
            [] r.kind = "absent" ->
                 /\ positions' = remove_position(positions, s)
                 /\ ReturnFromRecreate(mon, [Obs("recreate_absent", s, None, 0, 0)
                                                EXCEPT !.subs = mon.subs])
            [] r.kind = "qty" /\ r.qty <= 0 ->
                 /\ UNCHANGED positions
                 /\ ReturnFromRecreate(mon, Obs("recreate_failed", s, None, mon.qty, 0))
            [] r.kind = "qty" /\ r.qty > 0 ->
                 /\ positions' = add_position(positions, s, [position EXCEPT !.qty = r.qty])
                 /\ mon' = [mon EXCEPT !.pc = "rc_retry", !.qty = r.qty, !.venue = r.qty]
                 /\ obs' = NoObs
    /\ UNCHANGED <<side_vars, engine, pending_orders, store, rate_limiter,
                   next_id, tasks>>
    /\ recreations' = Recount(recreations, positions', mon.sym, "same")

\* variant: the retry records the order id only
retried_position_stale(position, verified_qty, id) == [position EXCEPT !.open_order_id = id]

\* the position written back when the retry is acknowledged
retried_position(position, verified_qty, id) ==
    [position EXCEPT !.qty = verified_qty, !.open_order_id = id]

\* insufficient balance: exchange.submit_order(retry_req).await
MonRecreateRetry(o) ==
    /\ mon.pc = "rc_retry"
    /\ LET position == mon.pos
           s == mon.sym
       IN IF Acked(o)
          THEN /\ positions' = add_position(positions, s,
                                   Placed(retried_position(position, mon.qty, next_id),
                                          mon.caller))
               /\ pending_orders' = add_pending_order(pending_orders, next_id,
                                        PendingOrder(s, "sell", position.take_profit, mon.qty))
               /\ next_id' = next_id + 1
               /\ ReturnFromRecreate(mon, [Obs("retried", s, next_id, mon.qty,
                                                position.take_profit)
                                              EXCEPT !.subs = mon.subs + 1])
          ELSE /\ UNCHANGED <<positions, pending_orders, next_id>>
               /\ ReturnFromRecreate(mon, [Obs("retry_failed", s, None, mon.qty, 0)
                                              EXCEPT !.subs = mon.subs + 1])
    /\ UNCHANGED <<side_vars, engine, store, rate_limiter, tasks>>
    /\ recreations' = Recount(recreations, positions', mon.sym, "same")

\* the event loop takes a Quote (bid) or Trade (price) event with a positive
\* price and snapshots the pending orders
MonRecv(s, price) ==
    /\ mon.pc = "idle"
    /\ price > 0
    /\ mon' = [IdleMon EXCEPT
                 !.pc = "orders", !.sym = s, !.price = price,
                 !.snap = pending_orders,
                 !.todo = {id \in DOMAIN pending_orders : pending_orders[id].symbol = s},
                 !.pre = IF /\ has_position(positions, s)
                            /\ ~positions[s].is_closing
                            /\ positions[s].open_order_id # None
                            /\ price <= positions[s].stop_loss
                         THEN "sl_hit" ELSE ""]
    /\ obs' = NoObs
    /\ UNCHANGED <<side_vars, recreations, engine, positions, pending_orders, store,
                   rate_limiter, next_id, tasks>>

\* one turn of the loop over the snapshot, up to the first await.  when:
\* "expired" - limit_order_expiration_days is set and the order's age reached it;
\* "recent"  - last_check_time is less than 2 s old; "due" - otherwise
MonOrderNext(id, when) ==
    /\ mon.pc = "orders"
    /\ id \in mon.todo
    /\ obs' = NoObs
    /\ LET order == mon.snap[id]
           rest == [mon EXCEPT !.todo = @ \ {id}]
       IN mon' = CASE when = "expired" -> [rest EXCEPT !.pc = "exp_cancel", !.cur = id]
                   [] when = "recent" -> rest
                   [] when = "due" ->
                        IF order.side = "buy" /\ mon.price <= order.limit_price
                        THEN [rest EXCEPT !.pc = "buy_get", !.cur = id]
                        ELSE IF order.side = "sell" /\ mon.price >= order.limit_price
                        THEN [rest EXCEPT !.pc = "sell_get", !.cur = id]
                        ELSE rest
    /\ UNCHANGED <<side_vars, recreations, engine, positions, pending_orders, store, rate_limiter,
                   next_id, tasks>>

\* expired by age: exchange.cancel_order().await, then the order is dropped
MonExpireCancel ==
    /\ mon.pc = "exp_cancel"
    /\ pending_orders' = remove_pending_order(pending_orders, mon.cur)
    /\ mon' = [mon EXCEPT !.pc = "orders", !.cur = None,
                          !.expired = IF mon.snap[mon.cur].side = "sell"
                                      THEN @ \cup {mon.cur} ELSE @]
    /\ obs' = Obs("expired", mon.sym, mon.cur, 0, 0)
    /\ UNCHANGED <<side_vars, recreations, engine, positions, store, rate_limiter, next_id, tasks>>

\* variant: the ordered quantity is kept whatever the venue reports
filled_qty_of_ordered(r, order) == order.qty

\* check_pending_buy_order: the filled quantity taken from the venue's
\* response, the ordered quantity when the response has none
filled_qty_of(r, order) == IF r.qty # 0 THEN r.qty ELSE order.qty

\* the Tracker: both maps
Tracker == [positions |-> positions, pending_orders |-> pending_orders]

\* variant: the canceled buy is looked up by symbol, and the oldest pending
\* buy of the symbol is dropped
handle_buy_canceled_by_symbol(tr, order_id, symbol) ==
    LET buys == {id \in DOMAIN tr.pending_orders :
                    /\ tr.pending_orders[id].symbol = symbol
                    /\ tr.pending_orders[id].side = "buy"}
    IN IF buys = {} THEN tr
       ELSE [tr EXCEPT !.pending_orders = remove_pending_order(@,
                           CHOOSE id \in buys : \A other \in buys : id <= other)]

\* check_pending_buy_order on canceled / expired: the pending order is
\* removed, nothing else of the Tracker is touched
handle_buy_canceled(tr, order_id, symbol) ==
    [tr EXCEPT !.pending_orders = remove_pending_order(@, order_id)]

\* check_pending_buy_order: exchange.get_order().await
MonBuyStatus(r) ==
    /\ mon.pc = "buy_get"
    /\ LET order == mon.snap[mon.cur]
       IN CASE r.status = "filled" ->
                 LET filled_qty == filled_qty_of(r, order)
                     fill_price == order.limit_price
                 IN /\ pending_orders' = remove_pending_order(pending_orders, mon.cur)
                    /\ mon' = [mon EXCEPT !.pc = "buy_tp", !.qty = filled_qty,
                                 !.venue = r.qty,
                                 !.fill = order.limit_price - r.improve,
                                 !.pos = PositionInfo(order.symbol, fill_price, filled_qty, None)]
                    /\ obs' = NoObs
            [] r.status \in {"canceled", "expired"} ->
                 /\ pending_orders' = handle_buy_canceled(Tracker, mon.cur,
                                          order.symbol).pending_orders
                 /\ mon' = [mon EXCEPT !.pc = "orders", !.cur = None]
                 /\ obs' = Obs("buy_canceled", mon.sym, mon.cur, 0, 0)
            [] r.status \in {"err", "open"} ->
                 /\ UNCHANGED pending_orders
                 /\ mon' = [mon EXCEPT !.pc = "orders", !.cur = None]
                 /\ obs' = NoObs
    /\ UNCHANGED <<side_vars, recreations, engine, positions, store, rate_limiter, next_id, tasks>>

\* check_pending_buy_order: exchange.submit_order(tp_req).await, then the
\* position is registered
MonBuyTp(o) ==
    /\ mon.pc = "buy_tp"
    /\ LET pos_info == mon.pos
           s == mon.sym
       IN IF Acked(o)
          THEN /\ pending_orders' = add_pending_order(pending_orders, next_id,
                                        PendingOrder(s, "sell", pos_info.take_profit, mon.qty))
               /\ positions' = add_position(positions, s,
                                   [pos_info EXCEPT !.open_order_id = next_id])
               /\ next_id' = next_id + 1
               /\ obs' = [Obs("buy_filled", s, mon.cur, mon.qty,
                               mon.snap[mon.cur].limit_price)
                             EXCEPT !.venue = mon.venue, !.fill = mon.fill, !.subs = 1]
          ELSE /\ positions' = add_position(positions, s, pos_info)
               /\ obs' = [Obs("buy_filled_no_tp", s, mon.cur, mon.qty,
                              mon.snap[mon.cur].limit_price)
                             EXCEPT !.fill = mon.fill]
               /\ UNCHANGED <<pending_orders, next_id>>
    /\ mon' = [mon EXCEPT !.pc = "orders", !.cur = None, !.pos = <<>>, !.qty = 0,
                          !.venue = 0, !.fill = 0]
    /\ UNCHANGED <<side_vars, engine, store, rate_limiter, tasks>>
    /\ recreations' = Recount(recreations, positions', mon.sym, "new")

\* check_pending_sell_order: exchange.get_order().await
MonSellStatus(r) ==
    /\ mon.pc = "sell_get"
    /\ LET order == mon.snap[mon.cur]
           s == order.symbol
       IN CASE r.status = "filled" ->
                 /\ pending_orders' = remove_pending_order(pending_orders, mon.cur)
                 /\ positions' = remove_position(positions, s)
                 /\ mon' = [mon EXCEPT !.pc = "orders", !.cur = None]
                 /\ obs' = Obs("sell_filled", s, mon.cur, 0, 0)
            [] r.status \in {"canceled", "expired"} ->
                 /\ pending_orders' = remove_pending_order(pending_orders, mon.cur)
                 /\ IF has_position(positions, s)
                    THEN LET pos == [positions[s] EXCEPT !.open_order_id = None]
                         IN /\ positions' = add_position(positions, s, pos)
                            /\ mon' = [mon EXCEPT !.pc = "rc_fetch", !.pos = pos,
                                         !.caller = "cancel", !.found = @ \cup {mon.cur}]
                    ELSE /\ UNCHANGED positions
                         /\ mon' = [mon EXCEPT !.pc = "orders", !.cur = None,
                                      !.found = @ \cup {mon.cur}]
                 /\ obs' = Obs("sell_canceled", s, mon.cur, 0, 0)
            [] r.status \in {"err", "open"} ->
                 /\ UNCHANGED <<pending_orders, positions>>
                 /\ mon' = [mon EXCEPT !.pc = "orders", !.cur = None]
                 /\ obs' = NoObs
    /\ UNCHANGED <<side_vars, engine, store, rate_limiter, next_id, tasks>>
    /\ recreations' = Recount(recreations, positions', mon.sym, IF mon'.pc = "rc_fetch" THEN "attempt" ELSE "same")

\* generate_exit_signal: the Signal(sell) goes on the bus and the Risk loop
\* spawns one assess_risk task for it
generate_exit_signal(s) == Spawn(tasks, Task("risk", s, "start", 0, 0, None))

\* the position part of the loop body, after the loop over the snapshot
MonPolice(link) ==
    /\ mon.pc = "orders"
    /\ mon.todo = {}
    /\ LET s == mon.sym
           current_price == mon.price
           sells == {id \in DOMAIN mon.snap :
                        mon.snap[id].symbol = s /\ mon.snap[id].side = "sell"}
           has_pending_sell == sells # {}
       IN IF ~has_position(positions, s)
          THEN /\ EndIteration(mon)
               /\ UNCHANGED <<positions, tasks>>
          ELSE LET position == positions[s]
                   exit(reason) ==
                       /\ NumTasks < MaxTasks
                       /\ tasks' = generate_exit_signal(s)
                       /\ mon' = IdleMon
                       /\ obs' = [NoObs EXCEPT !.op = "iter_end", !.sym = s,
                                    !.price = current_price, !.end = TRUE,
                                    !.found = mon.found, !.expired = mon.expired, !.pre = mon.pre,
                                    !.sig = reason]
                   check_exit(ps) ==
                       IF current_price >= position.take_profit
                       THEN /\ exit("take_profit")
                            /\ positions' = mark_closing(ps, s)
                       ELSE IF current_price <= position.stop_loss
                       THEN /\ exit("stop_loss")
                            /\ positions' = mark_closing(ps, s)
                       ELSE /\ EndIteration(mon)
                            /\ positions' = ps
                            /\ UNCHANGED tasks
               IN IF position.is_closing
                  THEN /\ EndIteration(mon)
                       /\ UNCHANGED <<positions, tasks>>
                  ELSE IF position.open_order_id = None
                  THEN IF position.recreate_attempts >= MAX_RECREATE_ATTEMPTS
                       THEN /\ positions' = remove_position(positions, s)
                            /\ EndIteration(mon)
                            /\ UNCHANGED tasks
                       ELSE IF /\ position.last_recreate_attempt # NoTime
                               /\ position.last_recreate_attempt < RECREATE_COOLDOWN_TICKS
                       THEN /\ EndIteration(mon)
                            /\ UNCHANGED <<positions, tasks>>
                       ELSE IF ~has_pending_sell
                       THEN LET updated_pos ==
                                    [position EXCEPT !.last_recreate_attempt = 0,
                                                     !.recreate_attempts = @ + 1]
                            IN /\ positions' = add_position(positions, s, updated_pos)
                               /\ mon' = [mon EXCEPT !.pc = "rc_fetch", !.pos = updated_pos,
                                                     !.caller = "police"]
                               /\ obs' = NoObs
                               /\ UNCHANGED tasks
                       ELSE /\ link \in sells
                            /\ check_exit(add_position(positions, s,
                                   [position EXCEPT !.open_order_id = link]))
                  ELSE /\ EndIteration(mon)
                       /\ UNCHANGED <<positions, tasks>>
    /\ UNCHANGED <<side_vars, engine, pending_orders, store, rate_limiter, next_id>>
    /\ recreations' = Recount(recreations, positions', mon.sym, IF mon'.pc = "rc_fetch" THEN "attempt" ELSE "same")

----------------------------------------------------------------------------
\* Event bus (bus.rs) and the receive loops of its consumers

Components == {"Strategy", "Risk", "Execution", "Monitor", "Reporter"}

\* start_trading starts the services one after the other, after the stream
StartOrder == <<"Reporter", "Strategy", "Risk", "Execution", "Monitor">>

\* EventBus::new: the channel with its initial receiver dropped, nobody
\* subscribed.  tail counts the events stored, buffer is the ring of the
\* channel (event k is the k-th stored; 0 = empty slot), result the outcome of
\* the last publish; per component: start is the tail at subscribe()
\* (NoTime = not subscribed), next the receiver's position, running its event
\* loop, lagged whether its recv() has returned Lagged, handled the events
\* its loop body has taken, got those events in the order taken
BusInitial == [tail |-> 0,
               buffer |-> [i \in 0..(BusCapacity - 1) |-> 0],
               result |-> "none",
               start |-> [c \in Components |-> NoTime],
               next |-> [c \in Components |-> 0],
               running |-> [c \in Components |-> FALSE],
               lagged |-> [c \in Components |-> FALSE],
               handled |-> [c \in Components |-> 0],
               got |-> [c \in Components |-> <<>>]]

\* the receivers alive: subscribed, and the loop has not dropped its rx
Receivers == {c \in Components : bus.start[c] # NoTime /\ bus.running[c]}

\* EventBus::subscribe, called at the start of each service in turn
subscribe(c) ==
    /\ bus.start[c] = NoTime
    /\ \E i \in 1..Len(StartOrder) :
          /\ StartOrder[i] = c
          /\ \A j \in 1..(i - 1) : bus.start[StartOrder[j]] # NoTime
    /\ bus' = [bus EXCEPT !.start[c] = bus.tail, !.next[c] = bus.tail,
                          !.running[c] = TRUE]
    /\ UNCHANGED not_bus

\* EventBus::publish: tx.send fails when no receiver is alive, otherwise it
\* never waits and stores the event over the oldest slot
publish ==
    /\ bus.tail < MaxPublished
    /\ IF Receivers = {}
       THEN bus' = [bus EXCEPT !.result = "err"]
       ELSE bus' = [bus EXCEPT !.buffer[bus.tail % BusCapacity] = bus.tail + 1,
                               !.tail = @ + 1,
                               !.result = "ok"]
    /\ UNCHANGED not_bus

\* variant: the receiver is handed the newest event of the channel
recv_latest(b, c) == b.buffer[(b.tail - 1) % BusCapacity]

\* rx.recv(): the event at the receiver's position
recv_value(b, c) == b.buffer[b.next[c] % BusCapacity]

\* one turn of `while let Ok(event) = rx.recv().await`: a receiver more than
\* the capacity behind gets Err(Lagged) and the loop ends; otherwise the next
\* event is taken
recv_loop(c) ==
    /\ bus.running[c]
    /\ bus.next[c] < bus.tail
    /\ IF bus.tail - bus.next[c] > BusCapacity
       THEN bus' = [bus EXCEPT !.next[c] = bus.tail - BusCapacity,
                               !.lagged[c] = TRUE,
                               !.running[c] = FALSE]
       ELSE bus' = [bus EXCEPT !.next[c] = @ + 1,
                               !.handled[c] = @ + 1,
                               !.got[c] = Append(@, recv_value(bus, c))]
    /\ UNCHANGED not_bus

----------------------------------------------------------------------------
\* RateLimiter (services/execution_utils.rs), called from the Execution
\* tasks, which the multi-threaded runtime runs in parallel

RateSymbols == {"BTC", "ETH"}
Callers == 1..NumCallers

IdleCall == [pc |-> "idle", sym |-> "", now |-> 0]

\* RateLimiter::new: an empty last_order_per_symbol; clock is Instant::now(),
\* call[c] the try_acquire call of task c, wins the calls that returned true
LimiterInitial == [clock |-> 0,
                   last_order_per_symbol |-> <<>>,
                   call |-> [c \in Callers |-> IdleCall],
                   wins |-> {}]

\* time passes
LimiterTick ==
    /\ limiter.clock < MaxClock
    /\ limiter' = [limiter EXCEPT !.clock = @ + 1]
    /\ UNCHANGED not_limiter

\* try_acquire(symbol): let now = Instant::now()
try_acquire_enter(c, s) ==
    /\ limiter.call[c].pc = "idle"
    /\ limiter' = [limiter EXCEPT !.call[c] = [pc |-> "check", sym |-> s,
                                               now |-> limiter.clock]]
    /\ UNCHANGED not_limiter

\* try_acquire: last_order_per_symbol.get(symbol) and the cooldown test;
\* the read guard is released at the end of the `if let`
try_acquire_check(c) ==
    /\ limiter.call[c].pc = "check"
    /\ LET s == limiter.call[c].sym
           m == limiter.last_order_per_symbol
       IN IF s \in DOMAIN m /\ limiter.clock - m[s] < MinIntervalTicks
          THEN limiter' = [limiter EXCEPT !.call[c] = IdleCall]
          ELSE limiter' = [limiter EXCEPT !.call[c].pc = "insert"]
    /\ UNCHANGED not_limiter

\* try_acquire: last_order_per_symbol.insert(symbol, now); true
try_acquire_insert(c) ==
    /\ limiter.call[c].pc = "insert"
    /\ LET s == limiter.call[c].sym
           now == limiter.call[c].now
       IN limiter' = [limiter EXCEPT
                        !.last_order_per_symbol = MapPut(@, s, now),
                        !.wins = @ \cup {[by |-> c, sym |-> s, now |-> now]},
                        !.call[c] = IdleCall]
    /\ UNCHANGED not_limiter

----------------------------------------------------------------------------
\* MarketStore (data/store.rs)

MarketSymbols == {"BTC", "ETH"}
HistoryKinds == {"bars", "trades", "quotes"}

\* MarketStore::new(limit): empty maps; queues[k][s] is the VecDeque of kind k
\* for symbol s (an absent entry is the empty queue), inserted[k][s] counts the
\* update calls made for it; the n-th item inserted is n
MarketStoreNew(limit) ==
    [limit |-> limit,
     queues |-> [k \in HistoryKinds |-> [s \in MarketSymbols |-> <<>>]],
     inserted |-> [k \in HistoryKinds |-> [s \in MarketSymbols |-> 0]]]

\* variant: the front is dropped only once the queue is over the limit
push_bounded_late(queue, item, limit) ==
    Append(IF Len(queue) > limit THEN Tail(queue) ELSE queue, item)

\* if queue.len() >= self.limit { queue.pop_front(); } queue.push_back(item)
push_bounded(queue, item, limit) ==
    Append(IF Len(queue) >= limit /\ queue # <<>> THEN Tail(queue) ELSE queue, item)

\* entry(symbol).or_default() holds the entry for the whole update
update_history(k, s) ==
    /\ history.inserted[k][s] < MaxInserted
    /\ LET item == history.inserted[k][s] + 1
       IN history' = [history EXCEPT
                        !.queues[k][s] = push_bounded(@, item, history.limit),
                        !.inserted[k][s] = item]
    /\ UNCHANGED not_history

update_bar(s) == update_history("bars", s)
update_trade(s) == update_history("trades", s)
update_quote(s) == update_history("quotes", s)

\* the last n of the items 1..total, oldest first
LastInserted(total, n) ==
    LET m == IF n < total THEN n ELSE total
    IN [i \in 1..m |-> total - m + i]

----------------------------------------------------------------------------
\* Order sizing (services/execution_utils.rs), amounts in whole dollars,
\* target_pct_of_balance in percent

NoSizing == [some |-> FALSE, notional |-> 0, qty |-> <<0, 1>>, limit_price |-> 0]

\* variant: the affordable cap is applied without looking at min_order
compute_order_sizing_capped(price, buying_power, min_order, max_order, target_pct) ==
    IF price <= 0 \/ buying_power <= 0 THEN NoSizing
    ELSE LET target == (buying_power * target_pct) \div 100
             raised == IF target < min_order THEN min_order ELSE target
             clamped == IF raised > max_order THEN max_order ELSE raised
             max_affordable == (buying_power * 95) \div 100
             notional == IF clamped > max_affordable THEN max_affordable ELSE clamped
         IN [some |-> TRUE, notional |-> notional, qty |-> <<notional, price>>,
             limit_price |-> price]

\* compute_order_sizing: None, or Some(OrderSizing); qty is notional / price,
\* kept as the pair
compute_order_sizing(price, buying_power, min_order, max_order, target_pct) ==
    IF price <= 0 \/ buying_power <= 0 THEN NoSizing
    ELSE LET target == (buying_power * target_pct) \div 100
             raised == IF target < min_order THEN min_order ELSE target
             clamped == IF raised > max_order THEN max_order ELSE raised
             max_affordable == (buying_power * 95) \div 100
         IN IF clamped > max_affordable /\ max_affordable < min_order
            THEN NoSizing
            ELSE LET notional == IF clamped > max_affordable
                                 THEN max_affordable ELSE clamped
                 IN [some |-> TRUE, notional |-> notional,
                     qty |-> <<notional, price>>, limit_price |-> price]

\* the arguments tried: buying power in multiples of 20 and percentages in
\* multiples of 5, so that the target and 95% of the balance are whole
SizingArgs ==
    [price : 0..MaxPrice,
     buying_power : {20 * k : k \in 0..MaxBalanceUnits},
     min_order : 0..MaxAmount,
     max_order : 0..MaxAmount,
     target_pct : {5 * k : k \in 0..MaxPctUnits} \cup {100}]

\* config.rs defaults: min 10, max 100 (capped to the amounts tried)
DefaultSizingArgs == [price |-> 1, buying_power |-> 20, min_order |-> 10,
                      max_order |-> MaxAmount, target_pct |-> 5]

\* a call of compute_order_sizing before it has run
SizingCall(a) == [args |-> a, done |-> FALSE, result |-> NoSizing]

\* execute_fast sizes the order
size_order ==
    /\ ~sizing.done
    /\ LET a == sizing.args
       IN sizing' = [sizing EXCEPT
                       !.done = TRUE,
                       !.result = compute_order_sizing(a.price, a.buying_power,
                                      a.min_order, a.max_order, a.target_pct)]
    /\ UNCHANGED not_sizing

----------------------------------------------------------------------------
\* Limit pricing (services/execution_utils.rs)

\* the arguments tried: any bid and ask, both sides, aggression of either sign
PricingArgs ==
    [bid : 1..MaxQuote,
     ask : 1..MaxQuote,
     side : {"buy", "sell"},
     aggression_bps : {BpsStep * k : k \in (0 - MaxBpsUnits)..MaxBpsUnits}
                      \cup {DEFAULT_AGGRESSION_BPS}]

DefaultPricingArgs == [bid |-> 1, ask |-> 1, side |-> "buy",
                       aggression_bps |-> DEFAULT_AGGRESSION_BPS]

\* a call of aggressive_limit_price before it has run
PricingCall(a) == [args |-> a, done |-> FALSE, result |-> 0]

\* execute_fast prices the order
price_order ==
    /\ ~pricing.done
    /\ LET a == pricing.args
       IN pricing' = [pricing EXCEPT
                        !.done = TRUE,
                        !.result = aggressive_limit_price(a.bid, a.ask, a.side,
                                                          a.aggression_bps)]
    /\ UNCHANGED not_pricing

----------------------------------------------------------------------------
\* AccountCache (services/execution_utils.rs), shared by the Execution tasks

IdleBp == [pc |-> "idle", need |-> 0, fetched |-> NoTime, failed |-> FALSE]
NoReturn == [by |-> 0, stamp |-> NoTime, need |-> 0, failed |-> FALSE]

\* AccountCache::new: no summary, no last_fetch.  An AccountSummary is
\* represented by the number of invalidations made when the exchange
\* produced it (NoTime = None); fresh: last_fetch is Some and younger than
\* refresh_interval; call[c]: the buying_power call of task c, with the
\* invalidations made when it began; last: the call that returned last
AccountCacheNew == [summary |-> NoTime,
                    fresh |-> FALSE,
                    invalidations |-> 0,
                    call |-> [c \in Callers |-> IdleBp],
                    last |-> NoReturn]

\* buying_power: the read lock and should_refresh
buying_power_enter(c) ==
    /\ cache.call[c].pc = "idle"
    /\ cache' = [cache EXCEPT
                   !.call[c] = [IdleBp EXCEPT
                                  !.pc = IF cache.fresh THEN "read" ELSE "refresh",
                                  !.need = cache.invalidations],
                   !.last = NoReturn]
    /\ UNCHANGED not_cache

\* refresh: exchange.get_account().await
refresh_fetch(c, ok) ==
    /\ cache.call[c].pc = "refresh"
    /\ cache' = [cache EXCEPT
                   !.call[c] = IF ok
                               THEN [@ EXCEPT !.pc = "store",
                                              !.fetched = cache.invalidations]
                               ELSE [@ EXCEPT !.pc = "read", !.failed = TRUE],
                   !.last = NoReturn]
    /\ UNCHANGED not_cache

\* refresh: the write lock; summary and last_fetch are replaced
refresh_store(c) ==
    /\ cache.call[c].pc = "store"
    /\ cache' = [cache EXCEPT
                   !.summary = cache.call[c].fetched,
                   !.fresh = TRUE,
                   !.call[c].pc = "read",
                   !.last = NoReturn]
    /\ UNCHANGED not_cache

\* buying_power: the second read lock; the cached summary is returned
buying_power_return(c) ==
    /\ cache.call[c].pc = "read"
    /\ cache' = [cache EXCEPT
                   !.call[c] = IdleBp,
                   !.last = [by |-> c, stamp |-> cache.summary,
                             need |-> cache.call[c].need,
                             failed |-> cache.call[c].failed]]
    /\ UNCHANGED not_cache

\* invalidate, awaited after an acknowledged order: last_fetch = None
invalidate ==
    /\ cache.invalidations < MaxInvalidations
    /\ cache' = [cache EXCEPT !.fresh = FALSE, !.invalidations = @ + 1,
                              !.last = NoReturn]
    /\ UNCHANGED not_cache

\* refresh_interval elapses
cache_expires ==
    /\ cache.fresh
    /\ cache' = [cache EXCEPT !.fresh = FALSE, !.last = NoReturn]
    /\ UNCHANGED not_cache

-----------------------------------------------------------------------------
\* Strategy engine (services/strategy.rs)

\* prices are counted in units of 1/95 dollar, so that 100.00 is 9500 and
\* 100.20 is 9519; a mid is kept doubled (bid + ask) to stay an integer
UnitsPerDollar == 5 * 19
RunLength == 20
RaceLength == 4
HybridLength == 5
MaxInFlight == 2
MaxGateRefresh == 3
MaxCooldown == 2
MidsCapacity == 30
MaxLookback == 10

\* quote k of the feed, k = 1 .. total: the bid rises by step per quote
QuoteOf(f, k) ==
    [bid |-> f.base + (k - 1) * f.step, ask |-> f.base + (k - 1) * f.step + f.spread]

\* the two filters at the head of evaluate_hft: validity, then the spread
hft_accepts(cfg, q) ==
    /\ ~(q.bid <= 0 \/ q.ask <= 0 \/ q.ask < q.bid)
    /\ ~((q.ask - q.bid) * PriceScale > cfg.max_spread_bps * (q.bid + q.ask))

\* mids.push_back(mid); while mids.len() > 30 { mids.pop_front() }
push_mid(mids, m) ==
    LET s == Append(mids, m)
    IN IF Len(s) > MidsCapacity THEN SubSeq(s, Len(s) - MidsCapacity + 1, Len(s)) ELSE s

\* lookback = min(10, len - 1)
lookback_of(mids) == IF Len(mids) - 1 < MaxLookback THEN Len(mids) - 1 ELSE MaxLookback

\* edge_bps = (mid - past) / past * 10000 >= min_edge_bps, on doubled mids
edge_reached(mids, min_edge_bps) ==
    LET mid == mids[Len(mids)]
        past == mids[Len(mids) - lookback_of(mids)]
    IN (mid - past) * 10000 >= min_edge_bps * past

HftSymbolStateNew == [quotes_since_eval |-> 0, mids |-> <<>>]

\* variant: the counter is left running when an evaluation is made
evaluate_hft_keeps_counting(s, k) ==
    LET q == QuoteOf(s.feed, k)
        n == s.hft_state.quotes_since_eval + 1
        mids == push_mid(s.hft_state.mids, q.bid + q.ask)
        seen == [s EXCEPT !.accepted = Append(@, k)]
    IN IF ~hft_accepts(s.cfg, q) THEN s
       ELSE IF n < s.cfg.evaluate_every_quotes
       THEN [seen EXCEPT !.hft_state = [quotes_since_eval |-> n, mids |-> mids]]
       ELSE IF lookback_of(mids) = 0 \/ ~edge_reached(mids, s.cfg.min_edge_bps)
       THEN [seen EXCEPT !.hft_state = [quotes_since_eval |-> n, mids |-> mids]]
       ELSE [seen EXCEPT !.hft_state = [quotes_since_eval |-> n, mids |-> mids],
                         !.signals = Append(@, k)]

\* evaluate_hft for quote k: the strategy state after the call. The entry of
\* the symbol is locked from the counter update to the edge computation.
evaluate_hft(s, k) ==
    LET q == QuoteOf(s.feed, k)
        n == s.hft_state.quotes_since_eval + 1
        mids == push_mid(s.hft_state.mids, q.bid + q.ask)
        seen == [s EXCEPT !.accepted = Append(@, k)]
    IN IF ~hft_accepts(s.cfg, q) THEN s
       ELSE IF n < s.cfg.evaluate_every_quotes
       THEN [seen EXCEPT !.hft_state = [quotes_since_eval |-> n, mids |-> mids]]
       ELSE IF lookback_of(mids) = 0 \/ ~edge_reached(mids, s.cfg.min_edge_bps)
       THEN [seen EXCEPT !.hft_state = [quotes_since_eval |-> 0, mids |-> mids]]
       ELSE [seen EXCEPT !.hft_state = [quotes_since_eval |-> 0, mids |-> mids],
                         !.signals = Append(@, k)]

\* the mids ring that the accepted quotes among 1 .. k leave when they are
\* pushed in the order of the feed
RECURSIVE mids_in_order(_, _, _)
mids_in_order(f, accepted, k) ==
    IF k = 0 THEN <<>>
    ELSE IF k \in accepted
         THEN push_mid(mids_in_order(f, accepted, k - 1),
                       QuoteOf(f, k).bid + QuoteOf(f, k).ask)
         ELSE mids_in_order(f, accepted, k - 1)

HybridGateStateNew(cfg) ==
    [quotes_until_refresh |-> cfg.gate_refresh_quotes,
     cooldown_quotes_remaining |-> 0, allowed |-> TRUE]

\* the gate bookkeeping of evaluate_hybrid, under the entry lock
gate_bookkeeping(g, cfg) ==
    LET cooling == g.cooldown_quotes_remaining > 0
        cd == IF cooling THEN g.cooldown_quotes_remaining - 1 ELSE 0
        al == IF cooling THEN FALSE ELSE g.allowed
        qr == IF g.quotes_until_refresh > 0 THEN g.quotes_until_refresh - 1 ELSE 0
        refresh == qr = 0 /\ cd = 0
    IN [gate |-> [quotes_until_refresh |-> IF refresh THEN cfg.gate_refresh_quotes ELSE qr,
                  cooldown_quotes_remaining |-> cd, allowed |-> al],
        should_refresh |-> refresh]

\* currently_allowed = allowed && cooldown_quotes_remaining == 0
currently_allowed(g) == g.allowed /\ g.cooldown_quotes_remaining = 0

\* what the Director's answer does to the gate
gate_after_director(g, cfg, resp) ==
    IF resp = "err" THEN g
    ELSE IF resp = "allowed" THEN [g EXCEPT !.allowed = TRUE]
    ELSE [g EXCEPT !.allowed = FALSE,
                   !.cooldown_quotes_remaining = cfg.no_trade_cooldown_quotes]

DirectorResponses == {"allowed", "no_trade", "err"}

\* no no_trade answer has been seen yet
NotClosed == [open |-> FALSE, quotes |-> 0, refresh_at |-> 0, signal_at |-> {}]

\* the strategy engine after start(), for a configuration and a feed
StrategyNew(cfg, feed) ==
    [cfg |-> cfg, feed |-> feed, published |-> 0, inflight |-> {},
     hft_state |-> HftSymbolStateNew, hybrid_gate |-> HybridGateStateNew(cfg),
     accepted |-> <<>>, signals |-> <<>>, closed |-> NotClosed]

DefaultStrategyConfig ==
    [mode |-> "hft", evaluate_every_quotes |-> 5, min_edge_bps |-> 15,
     max_spread_bps |-> 25, gate_refresh_quotes |-> MaxGateRefresh,
     no_trade_cooldown_quotes |-> MaxCooldown, warmup_count |-> 0]

DefaultFeed ==
    [base |-> 100 * UnitsPerDollar, step |-> 1, spread |-> 0,
     total |-> RaceLength, parallel |-> MaxInFlight]

Handler(k, pc) == [k |-> k, pc |-> pc, refresh |-> FALSE, n |-> 0]

\* the loop of start() receives the next quote event and spawns its handler
strategy_recv ==
    /\ strat.published < strat.feed.total
    /\ Cardinality(strat.inflight) < strat.feed.parallel
    /\ strat' = [strat EXCEPT
                   !.published = @ + 1,
                   !.inflight = @ \cup {Handler(strat.published + 1,
                                   IF strat.cfg.mode = "hft" THEN "hft" ELSE "gate")}]
    /\ UNCHANGED not_strat

\* a spawned evaluate_hft runs
hft_task(h) ==
    /\ h \in strat.inflight /\ h.pc = "hft"
    /\ strat' = [evaluate_hft(strat, h.k) EXCEPT !.inflight = @ \ {h}]
    /\ UNCHANGED not_strat

\* a spawned evaluate_hybrid runs up to the end of the gate bookkeeping
hybrid_gate_step(h) ==
    /\ h \in strat.inflight /\ h.pc = "gate"
    /\ LET q == QuoteOf(strat.feed, h.k)
           b == gate_bookkeeping(strat.hybrid_gate, strat.cfg)
           n == IF strat.closed.open THEN strat.closed.quotes + 1 ELSE 0
           warm == strat.published >= strat.cfg.warmup_count
           call == b.should_refresh /\ warm
       IN IF q.bid <= 0 \/ q.ask <= 0 \/ q.ask < q.bid
          THEN strat' = [strat EXCEPT !.inflight = @ \ {h}]
          ELSE strat' = [strat EXCEPT
                  !.hybrid_gate = b.gate,
                  !.closed.quotes = n,
                  !.closed.refresh_at = IF call /\ strat.closed.open /\ @ = 0 THEN n ELSE @,
                  !.inflight = (@ \ {h}) \cup
                      {[h EXCEPT !.pc = IF call THEN "director" ELSE "recheck",
                                 !.refresh = b.should_refresh, !.n = n]}]
    /\ UNCHANGED not_strat

\* director.run(..).await returns and the gate entry is updated
hybrid_director(h, resp) ==
    /\ h \in strat.inflight /\ h.pc = "director"
    /\ LET closing == resp = "no_trade"
           moved == [h EXCEPT !.pc = "recheck", !.n = IF closing THEN 0 ELSE @]
       IN strat' = [strat EXCEPT
              !.hybrid_gate = gate_after_director(@, strat.cfg, resp),
              !.closed = IF closing
                         THEN [open |-> TRUE, quotes |-> 0, refresh_at |-> 0, signal_at |-> {}]
                         ELSE @,
              !.inflight = IF closing
                           THEN {[x EXCEPT !.n = 0] : x \in (@ \ {h})} \cup {moved}
                           ELSE (@ \ {h}) \cup {moved}]
    /\ UNCHANGED not_strat

\* the gate is read again and an open gate hands the quote to evaluate_hft
hybrid_recheck(h) ==
    /\ h \in strat.inflight /\ h.pc = "recheck"
    /\ LET after == IF currently_allowed(strat.hybrid_gate)
                    THEN evaluate_hft(strat, h.k) ELSE strat
           emitted == Len(after.signals) > Len(strat.signals)
       IN strat' = [after EXCEPT
              !.inflight = @ \ {h},
              !.closed.signal_at = IF emitted /\ h.n > 0 THEN @ \cup {h.n} ELSE @]
    /\ UNCHANGED not_strat

-----------------------------------------------------------------------------
\* Start and stop of the pipeline (api.rs)

MaxStarts == 3
MaxHandled == 2

\* the tasks that one start_trading spawns through the services' start()
PipelineTasks == {"Stream"} \cup Components

Generations == 1..MaxStarts

\* AppState after main(): no trading handle, nothing spawned
LifecycleInitial ==
    [trading_handle |-> None, started |-> 0, supervisor |-> "none",
     running |-> {}, handled |-> 0, late |-> {}]

\* the tasks spawned by the supervising task once the stream has connected:
\* the stream reader only when the connection succeeded, the services always
spawned_by(g, ok) ==
    {<<g, c>> : c \in IF ok THEN PipelineTasks ELSE Components}

\* POST /start: refused while a handle is stored, else spawns the supervisor
start_trading ==
    /\ life.trading_handle = None
    /\ life.started < MaxStarts
    /\ life' = [life EXCEPT !.started = @ + 1, !.trading_handle = life.started + 1,
                            !.supervisor = "connecting"]
    /\ UNCHANGED not_life

\* the supervising task: ws_provider.start(..).await answers, then every
\* service's start() spawns its loop and returns, then the task sleeps
supervisor_starts(ok) ==
    /\ life.supervisor = "connecting"
    /\ life' = [life EXCEPT !.supervisor = "sleeping",
                            !.running = @ \cup spawned_by(life.trading_handle, ok)]
    /\ UNCHANGED not_life

\* JoinHandle::abort ends the supervising task and nothing else
running_after_abort(running, g) == running

\* POST /stop: takes the handle and aborts the supervising task
stop_trading ==
    /\ life.trading_handle # None
    /\ life' = [life EXCEPT !.trading_handle = None, !.supervisor = "none",
                            !.running = running_after_abort(@, life.trading_handle)]
    /\ UNCHANGED not_life

\* a spawned task of a pipeline takes its next event (a frame for the stream,
\* a bus event for a service) and acts on it; counted for the pipeline whose
\* handle is stored, noted per generation for the others
task_handles_event(t) ==
    /\ t \in life.running
    /\ IF t[1] = life.trading_handle
       THEN /\ life.handled < MaxHandled
            /\ life' = [life EXCEPT !.handled = @ + 1]
       ELSE /\ t[1] \notin life.late
            /\ life' = [life EXCEPT !.late = @ \cup {t[1]}]
    /\ UNCHANGED not_life

-----------------------------------------------------------------------------
\* Market-data stream (exchange/ws.rs, services/websocket_service.rs)

MaxFrames == 3

QuoteSubscribers == {"Strategy", "Execution"}

\* the reader loops: process_alpaca (ws.rs), process_kraken (ws.rs) and
\* process_market_message (websocket_service.rs)
Providers == {"alpaca", "kraken", "alpaca_service"}

\* bid and ask of an inbound frame: in order, equal, crossed, and with a
\* field that is missing or zero (read as 0.0)
FrameValues ==
    {[bid |-> 1, ask |-> 2], [bid |-> 1, ask |-> 1], [bid |-> 2, ask |-> 1],
     [bid |-> 0, ask |-> 1], [bid |-> 1, ask |-> 0]}

\* ask_price >= bid_price > 0
valid_quote(q) == q.ask >= q.bid /\ q.bid > 0

\* the test a reader makes before it stores and publishes the quote:
\* process_kraken wants both prices positive, the Alpaca readers make none
reader_accepts(provider, v) ==
    IF provider = "kraken" THEN v.bid > 0 /\ v.ask > 0 ELSE TRUE

\* variant: the event is published before the store is updated
ingest_order_publish_first == <<"publish", "update_store">>

\* what a reader does with an accepted quote, in this order
ingest_order == <<"update_store", "publish">>

NoFrame == [k |-> 0, symbol |-> "", bid |-> 0, ask |-> 0, step |-> 0]
NoQuote == [k |-> 0, bid |-> 0, ask |-> 0]
NoSeen == [by |-> "", symbol |-> "", k |-> 0, latest |-> 0]

\* the stream of one provider after start(): nothing read, store empty
IngestNew(provider) ==
    [provider |-> provider, read |-> 0, cur |-> NoFrame,
     latest |-> [s \in MarketSymbols |-> NoQuote],
     inbox |-> [c \in QuoteSubscribers |-> <<>>],
     seen |-> NoSeen]

\* the reader takes the next frame, a quote v for s; frame number k = read + 1
stream_frame(s, v) ==
    /\ ingest.cur = NoFrame
    /\ ingest.read < MaxFrames
    /\ ingest' = [ingest EXCEPT
                    !.read = @ + 1,
                    !.cur = IF reader_accepts(ingest.provider, v)
                            THEN [k |-> ingest.read + 1, symbol |-> s,
                                  bid |-> v.bid, ask |-> v.ask, step |-> 1]
                            ELSE NoFrame]
    /\ UNCHANGED not_ingest

\* the reader's next call for the frame in hand: store.update_quote or
\* bus.publish
stream_step ==
    /\ ingest.cur # NoFrame
    /\ LET f == ingest.cur
           q == [k |-> f.k, bid |-> f.bid, ask |-> f.ask]
           ev == [k |-> f.k, symbol |-> f.symbol, bid |-> f.bid, ask |-> f.ask]
           next == IF f.step = Len(ingest_order) THEN NoFrame ELSE [f EXCEPT !.step = @ + 1]
       IN IF ingest_order[f.step] = "update_store"
          THEN ingest' = [ingest EXCEPT !.latest[f.symbol] = q, !.cur = next]
          ELSE ingest' = [ingest EXCEPT
                            !.inbox = [c \in QuoteSubscribers |-> Append(@[c], ev)],
                            !.cur = next]
    /\ UNCHANGED not_ingest

\* a subscriber receives its next quote event and reads the store's latest
\* quote for the event's symbol
subscriber_handles(c) ==
    /\ ingest.inbox[c] # <<>>
    /\ LET ev == Head(ingest.inbox[c])
       IN ingest' = [ingest EXCEPT
                       !.inbox[c] = Tail(@),
                       !.seen = [by |-> c, symbol |-> ev.symbol, k |-> ev.k,
                                 latest |-> ingest.latest[ev.symbol].k]]
    /\ UNCHANGED not_ingest

-----------------------------------------------------------------------------
\* Position Tracker under concurrent callers (services/position_monitor.rs)

MaxCalls == 3

TrackerKeys == {"k1", "k2"}
TrackerMaps == {"positions", "pending_orders"}
TrackerOps == {"add_position", "remove_position", "get_position",
               "add_pending_order", "remove_pending_order"}

\* the Mutex a method locks
MapOf(op) ==
    IF op \in {"add_position", "remove_position", "get_position"}
    THEN "positions" ELSE "pending_orders"

\* the body of a method on the map m it has locked: the map it leaves and
\* what it returns. A stored value is the number of the call that inserted
\* it, 0 is an absent key or None.
tracker_method(op, key, n, m) ==
    CASE op \in {"add_position", "add_pending_order"} ->
            [map |-> [m EXCEPT ![key] = n], ret |-> 0]
      [] op \in {"remove_position", "remove_pending_order"} ->
            [map |-> [m EXCEPT ![key] = 0], ret |-> m[key]]
      [] op = "get_position" ->
            [map |-> m, ret |-> m[key]]

\* variant: lock() never waits
mutex_free_always(holder) == TRUE

\* Mutex::lock returns once no other thread holds the guard
mutex_free(holder) == holder = 0

IdleTrackerCall == [n |-> 0, pc |-> "idle", snap |-> <<>>]

\* PositionTracker::new(): both maps empty, no call made
PositionTrackerNew ==
    [maps |-> [x \in TrackerMaps |-> [k \in TrackerKeys |-> 0]],
     holder |-> [x \in TrackerMaps |-> 0],
     calls |-> [c \in Callers |-> IdleTrackerCall],
     log |-> <<>>]

\* a task calls a public method; the log notes whether another call was in
\* progress at that moment
tracker_call(c, op, key) ==
    /\ trk.calls[c].pc = "idle"
    /\ Len(trk.log) < MaxCalls
    /\ trk' = [trk EXCEPT
                 !.log = Append(@, [op |-> op, key |-> key, ret |-> 0, done |-> FALSE,
                                    overlap |-> \E d \in Callers : trk.calls[d].pc # "idle"]),
                 !.calls[c] = [n |-> Len(trk.log) + 1, pc |-> "lock", snap |-> <<>>]]
    /\ UNCHANGED not_trk

\* self.<map>.lock().unwrap(): the guard is taken and gives access to the map
tracker_lock(c) ==
    /\ trk.calls[c].pc = "lock"
    /\ LET x == MapOf(trk.log[trk.calls[c].n].op)
       IN /\ mutex_free(trk.holder[x])
          /\ trk' = [trk EXCEPT !.holder[x] = c,
                                !.calls[c].pc = "body",
                                !.calls[c].snap = trk.maps[x]]
    /\ UNCHANGED not_trk

\* the method's body on the guarded map, then the guard is dropped
tracker_return(c) ==
    /\ trk.calls[c].pc = "body"
    /\ LET n == trk.calls[c].n
           e == trk.log[n]
           x == MapOf(e.op)
           r == tracker_method(e.op, e.key, n, trk.calls[c].snap)
       IN trk' = [trk EXCEPT
                    !.maps[x] = r.map,
                    !.holder[x] = IF @ = c THEN 0 ELSE @,
                    !.log[n] = [e EXCEPT !.ret = r.ret, !.done = TRUE],
                    !.calls[c] = IdleTrackerCall]
    /\ UNCHANGED not_trk

\* the orders in which n calls can be executed one after the other
CallOrders(n) == {p \in [1..n -> 1..n] : \A i, j \in 1..n : i # j => p[i] # p[j]}

\* the maps and return values after the first i calls of order p, each
\* executed as a whole on the maps left by the one before
RECURSIVE Replay(_, _, _)
Replay(log, p, i) ==
    IF i = 0
    THEN [maps |-> [x \in TrackerMaps |-> [k \in TrackerKeys |-> 0]],
          rets |-> [n \in 1..Len(log) |-> 0]]
    ELSE LET before == Replay(log, p, i - 1)
             n == p[i]
             x == MapOf(log[n].op)
             r == tracker_method(log[n].op, log[n].key, n, before.maps[x])
         IN [maps |-> [before.maps EXCEPT ![x] = r.map],
             rets |-> [before.rets EXCEPT ![n] = r.ret]]

\* every call made has returned
TrackerQuiet == \A c \in Callers : trk.calls[c].pc = "idle"

----------------------------------------------------------------------------
\* Strategy engine, LLM mode (the tail of the loop in start() and
\* analyze_symbol_llm in services/strategy.rs), for one symbol

MaxLlmEvents == 5
MaxAnalyses == 2
MaxLlmCooldown == 2

\* no entry for the symbol in the cooldowns map; no no_trade answer so far
NoEntry == -1
NoAnswer == -1

\* what the Director answers: the text reads as no_trade, as a trade, or
\* the call failed
LlmResponses == {"no_trade", "trade", "err"}

\* cfg: no_trade_cooldown_quotes, warmup_count and the number of runtime
\* worker threads; cooldowns: quotes_remaining of the symbol's entry;
\* directors, quants: analyses awaiting the Director / the Quant agent;
\* history: received (events taken by the loop), since (events taken since
\* the last no_trade answer), last (what the loop did last), before (the
\* entry as the loop found it), signals
LlmStrategyNew(cfg) ==
    [cfg |-> cfg, pc |-> "recv", cooldowns |-> NoEntry,
     directors |-> 0, quants |-> 0,
     received |-> 0, since |-> NoAnswer, last |-> "", before |-> NoEntry,
     signals |-> 0]

DefaultLlmConfig == [no_trade_cooldown_quotes |-> 1, warmup_count |-> 0, threads |-> 2]

\* a spawned task runs while the loop is between two statements only when
\* the runtime has a second worker thread
llm_task_may_run(s) == s.cfg.threads > 1 \/ s.pc = "recv"

\* rx.recv().await returns a market event for the symbol
llm_recv ==
    /\ llm.pc = "recv"
    /\ llm.received < MaxLlmEvents
    /\ llm' = [llm EXCEPT !.pc = "check", !.received = @ + 1,
                          !.since = IF @ = NoAnswer THEN @ ELSE @ + 1,
                          !.last = ""]
    /\ UNCHANGED not_llm

\* the cooldown entry after an event that found quotes_remaining > 0
cooldown_after_skip(remaining) == remaining - 1

\* cooldowns.get_mut: an entry with quotes_remaining > 0 is decremented and
\* the event skipped
llm_check ==
    /\ llm.pc = "check"
    /\ llm' = IF llm.cooldowns # NoEntry /\ llm.cooldowns > 0
              THEN [llm EXCEPT !.pc = "recv", !.last = "skipped",
                               !.before = llm.cooldowns,
                               !.cooldowns = cooldown_after_skip(@)]
              ELSE [llm EXCEPT !.pc = "cleanup", !.before = llm.cooldowns]
    /\ UNCHANGED not_llm

\* cooldowns.get: an entry at 0 is removed.  remove() is called while the
\* Ref returned by get() is alive; DashMap documents that this may
\* deadlock (blocks) - otherwise the entry is gone
llm_cleanup(blocks) ==
    /\ llm.pc = "cleanup"
    /\ llm' = IF llm.cooldowns = 0
              THEN IF blocks THEN [llm EXCEPT !.pc = "blocked", !.last = "blocked"]
                   ELSE [llm EXCEPT !.pc = "spawn", !.cooldowns = NoEntry]
              ELSE [llm EXCEPT !.pc = "spawn"]
    /\ UNCHANGED not_llm

\* the warm-up check (the store holds every event received so far) and the
\* spawn of analyze_symbol_llm
llm_spawn ==
    /\ llm.pc = "spawn"
    /\ llm.directors + llm.quants < MaxAnalyses
    /\ llm' = IF llm.received < llm.cfg.warmup_count
              THEN [llm EXCEPT !.pc = "recv", !.last = "cold"]
              ELSE [llm EXCEPT !.pc = "recv", !.last = "started", !.directors = @ + 1]
    /\ UNCHANGED not_llm

\* analyze_symbol_llm: director.run(..).await returns
director_answers(resp) ==
    /\ llm.directors > 0
    /\ llm_task_may_run(llm)
    /\ llm' = CASE resp = "no_trade" ->
                     [llm EXCEPT !.directors = @ - 1,
                                 !.cooldowns = llm.cfg.no_trade_cooldown_quotes,
                                 !.since = 0, !.last = "no_trade"]
                [] resp = "trade" ->
                     [llm EXCEPT !.directors = @ - 1, !.quants = @ + 1, !.last = "trade"]
                [] resp = "err" ->
                     [llm EXCEPT !.directors = @ - 1, !.last = "director_failed"]
    /\ UNCHANGED not_llm

\* analyze_symbol_llm: quant.run_high_priority(..).await returns; on Ok the
\* buy signal is published
quant_answers(ok) ==
    /\ llm.quants > 0
    /\ llm_task_may_run(llm)
    /\ llm' = [llm EXCEPT !.quants = @ - 1,
                          !.signals = IF ok THEN @ + 1 ELSE @,
                          !.last = IF ok THEN "signal" ELSE "quant_failed"]
    /\ UNCHANGED not_llm

----------------------------------------------------------------------------
\* ---------------------------------------------------------------------
\* The LLM queue (llm/queue.rs): two bounded channels, the processor task
\* and the calls it spawns, each holding a semaphore permit
\* ---------------------------------------------------------------------

MaxRequests == 5       \* chat calls made in a run
MaxConcurrent == 2     \* largest llm_max_concurrent tried
MaxQueueSize == 2      \* largest llm_queue_size tried

Priorities == {"high", "normal"}

NoRequest == [id |-> 0, priority |-> ""]

\* LLMQueue::new: empty channels, a semaphore of max_concurrent permits and
\* the processor spawned at the top of its loop
LLMQueueNew(max_concurrent, queue_size) ==
    [cfg       |-> [max_concurrent |-> max_concurrent, queue_size |-> queue_size],
     high_rx   |-> <<>>,
     normal_rx |-> <<>>,
     pc        |-> "select",
     request   |-> NoRequest,
     permits   |-> max_concurrent,
     calls     |-> {},
     submitted |-> 0,
     answered  |-> 0]

\* the spawned calls that are inside client.chat
in_flight(q) == {c \in q.calls : c.pc = "chat"}

\* LLMQueue::chat up to the send: the request enters the channel of its
\* priority once the channel has room
chat(priority) ==
    /\ llm_queue.submitted < MaxRequests
    /\ LET req == [id |-> llm_queue.submitted + 1, priority |-> priority]
       IN  IF priority = "high"
           THEN /\ Len(llm_queue.high_rx) < llm_queue.cfg.queue_size
                /\ llm_queue' = [llm_queue EXCEPT !.high_rx = Append(@, req),
                                          !.submitted = @ + 1]
           ELSE /\ Len(llm_queue.normal_rx) < llm_queue.cfg.queue_size
                /\ llm_queue' = [llm_queue EXCEPT !.normal_rx = Append(@, req),
                                          !.submitted = @ + 1]
    /\ UNCHANGED not_llm_queue

\* the biased select of process_queue: the head of the high channel if it
\* has one, else the head of the normal channel
process_queue_select ==
    /\ llm_queue.pc = "select"
    /\ \/ /\ llm_queue.high_rx # <<>>
          /\ llm_queue' = [llm_queue EXCEPT !.pc = "acquire",
                                    !.request = Head(llm_queue.high_rx),
                                    !.high_rx = Tail(@)]
       \/ /\ llm_queue.high_rx = <<>>
          /\ llm_queue.normal_rx # <<>>
          /\ llm_queue' = [llm_queue EXCEPT !.pc = "acquire",
                                    !.request = Head(llm_queue.normal_rx),
                                    !.normal_rx = Tail(@)]
    /\ UNCHANGED not_llm_queue

\* a variant that spawns the call without taking a permit
process_queue_acquire_unmetered ==
    /\ llm_queue.pc = "acquire"
    /\ llm_queue' = [llm_queue EXCEPT !.pc = "select",
                              !.request = NoRequest,
                              !.calls = @ \cup {[req |-> llm_queue.request, pc |-> "spawned"]}]
    /\ UNCHANGED not_llm_queue

\* acquire_owned().await returns once a permit is free; the call is spawned
\* with the permit moved into it and the loop goes back to the select
process_queue_acquire ==
    /\ llm_queue.pc = "acquire"
    /\ llm_queue.permits > 0
    /\ llm_queue' = [llm_queue EXCEPT !.pc = "select",
                              !.request = NoRequest,
                              !.permits = @ - 1,
                              !.calls = @ \cup {[req |-> llm_queue.request, pc |-> "spawned"]}]
    /\ UNCHANGED not_llm_queue

\* the spawned task is scheduled and calls client.chat
client_chat(c) ==
    /\ c \in llm_queue.calls
    /\ c.pc = "spawned"
    /\ llm_queue' = [llm_queue EXCEPT !.calls = (@ \ {c}) \cup {[c EXCEPT !.pc = "chat"]}]
    /\ UNCHANGED not_llm_queue

\* client.chat returns, with a response or an error, and the result is sent
\* to the caller
client_chat_returns(c) ==
    /\ c \in llm_queue.calls
    /\ c.pc = "chat"
    /\ llm_queue' = [llm_queue EXCEPT !.calls = (@ \ {c}) \cup {[c EXCEPT !.pc = "sent"]},
                              !.answered = @ + 1]
    /\ UNCHANGED not_llm_queue

\* drop(permit): the spawned task ends and its permit returns to the semaphore
drop_permit(c) ==
    /\ c \in llm_queue.calls
    /\ c.pc = "sent"
    /\ llm_queue' = [llm_queue EXCEPT !.calls = @ \ {c},
                              !.permits = @ + 1]
    /\ UNCHANGED not_llm_queue

\* the sub-systems after construction, all or all but one
SideInitialBut(x) ==
    /\ IF x = "bus" THEN TRUE ELSE bus = BusInitial
    /\ IF x = "limiter" THEN TRUE ELSE limiter = LimiterInitial
    /\ IF x = "history" THEN TRUE ELSE history = MarketStoreNew(MaxHistoryLimit)
    /\ IF x = "sizing" THEN TRUE ELSE sizing = SizingCall(DefaultSizingArgs)
    /\ IF x = "pricing" THEN TRUE ELSE pricing = PricingCall(DefaultPricingArgs)
    /\ IF x = "cache" THEN TRUE ELSE cache = AccountCacheNew
    /\ IF x = "strat" THEN TRUE ELSE strat = StrategyNew(DefaultStrategyConfig, DefaultFeed)
    /\ IF x = "life" THEN TRUE ELSE life = LifecycleInitial
    /\ IF x = "ingest" THEN TRUE ELSE ingest = IngestNew("alpaca")
    /\ IF x = "trk" THEN TRUE ELSE trk = PositionTrackerNew
    /\ IF x = "llm" THEN TRUE ELSE llm = LlmStrategyNew(DefaultLlmConfig)
    /\ IF x = "llm_queue" THEN TRUE ELSE llm_queue = LLMQueueNew(MaxConcurrent, MaxQueueSize)

SideInitial == SideInitialBut("")

Init ==
    /\ engine \in {"fast", "standard"}
    /\ positions = <<>>
    /\ pending_orders = <<>>
    /\ store = [s \in Symbols |-> 0]
    /\ rate_limiter = {}
    /\ next_id = 1
    /\ tasks = EmptyBag
    /\ mon = [IdleMon EXCEPT !.pc = "sync_start"]
    /\ recreations = [s \in Symbols |-> 0]
    /\ obs = NoObs
    /\ SideInitial

Next ==
    \/ \E s \in Symbols : StreamQuote(s)
    \/ \E s \in Symbols : OrderBuy(s)
    \/ Tick
    \/ \E t \in TaskSet, recent \in BOOLEAN, ok \in BOOLEAN : ExecFastCheck(t, recent, ok)
    \/ \E t \in TaskSet, ok \in BOOLEAN : ExecFastSubmit(t, ok)
    \/ \E t \in TaskSet : ExecFastRegister(t)
    \/ \E t \in TaskSet, ok \in BOOLEAN : ExecStdPrepare(t, ok)
    \/ \E t \in TaskSet, ok \in BOOLEAN : ExecStdSubmit(t, ok)
    \/ \E t \in TaskSet, q \in 0..MaxQty : ExecSellStart(t, q)
    \/ \E t \in TaskSet, ok \in BOOLEAN : ExecSellSubmit(t, ok)
    \/ \E t \in TaskSet, approved \in BOOLEAN : assess_risk(t, approved)
    \/ \E r \in SyncResults : MonSyncFetch(r)
    \/ MonSyncNext
    \/ \E r \in VenuePositions : MonRecreateFetch(r)
    \/ \E o \in SubmitOutcomes : MonRecreateSubmit(o)
    \/ \E r \in VenuePositions : MonRecreateRefetch(r)
    \/ \E o \in SubmitOutcomes : MonRecreateRetry(o)
    \/ \E s \in Symbols, price \in EventPrices : MonRecv(s, price)
    \/ \E id \in OrderIds, when \in {"expired", "recent", "due"} : MonOrderNext(id, when)
    \/ MonExpireCancel
    \/ \E r \in OrderStatuses : MonBuyStatus(r)
    \/ \E o \in SubmitOutcomes : MonBuyTp(o)
    \/ \E r \in OrderStatuses : MonSellStatus(r)
    \/ \E link \in OrderIds \cup {None} : MonPolice(link)

Spec == Init /\ [][Next]_vars

\* the spawned tasks and the Monitor are tokio tasks on the multi-threaded
\* runtime: a step that stays possible is eventually taken
BuyStep ==
    \/ \E t \in TaskSet, recent \in BOOLEAN, ok \in BOOLEAN : ExecFastCheck(t, recent, ok)
    \/ \E t \in TaskSet, ok \in BOOLEAN : ExecFastSubmit(t, ok)
    \/ \E t \in TaskSet : ExecFastRegister(t)
    \/ \E t \in TaskSet, ok \in BOOLEAN : ExecStdPrepare(t, ok)
    \/ \E t \in TaskSet, ok \in BOOLEAN : ExecStdSubmit(t, ok)

ExitStep ==
    \/ \E t \in TaskSet, approved \in BOOLEAN : assess_risk(t, approved)
    \/ \E t \in TaskSet, q \in 0..MaxQty : ExecSellStart(t, q)
    \/ \E t \in TaskSet, ok \in BOOLEAN : ExecSellSubmit(t, ok)

MonStep ==
    \/ \E r \in SyncResults : MonSyncFetch(r)
    \/ MonSyncNext
    \/ \E r \in VenuePositions : MonRecreateFetch(r)
    \/ \E o \in SubmitOutcomes : MonRecreateSubmit(o)
    \/ \E r \in VenuePositions : MonRecreateRefetch(r)
    \/ \E o \in SubmitOutcomes : MonRecreateRetry(o)
    \/ \E id \in OrderIds, when \in {"expired", "recent", "due"} : MonOrderNext(id, when)
    \/ MonExpireCancel
    \/ \E r \in OrderStatuses : MonBuyStatus(r)
    \/ \E o \in SubmitOutcomes : MonBuyTp(o)
    \/ \E r \in OrderStatuses : MonSellStatus(r)
    \/ \E link \in OrderIds \cup {None} : MonPolice(link)

FairSpec == Spec /\ WF_vars(BuyStep) /\ WF_vars(ExitStep) /\ WF_vars(MonStep)

\* the trading services before any event
CoreIdle ==
    /\ engine = "fast"
    /\ positions = <<>>
    /\ pending_orders = <<>>
    /\ store = [s \in Symbols |-> 0]
    /\ rate_limiter = {}
    /\ next_id = 1
    /\ tasks = EmptyBag
    /\ mon = [IdleMon EXCEPT !.pc = "sync_start"]
    /\ recreations = [s \in Symbols |-> 0]
    /\ obs = NoObs

\* the bus on its own: events are published and every component's loop runs
BusInit == CoreIdle /\ SideInitial

BusNext ==
    \/ \E c \in Components : subscribe(c)
    \/ publish
    \/ \E c \in Components : recv_loop(c)

BusSpec == BusInit /\ [][BusNext]_vars

\* every consumer loop is a task of its own, awaiting recv()
BusFairSpec == BusSpec /\ \A c \in Components : WF_vars(recv_loop(c))

\* the market store on its own, for every history_limit
StoreInit ==
    /\ CoreIdle
    /\ SideInitialBut("history")
    /\ history \in {MarketStoreNew(l) : l \in 0..MaxHistoryLimit}

StoreNext ==
    \/ \E s \in MarketSymbols : update_bar(s)
    \/ \E s \in MarketSymbols : update_trade(s)
    \/ \E s \in MarketSymbols : update_quote(s)

StoreSpec == StoreInit /\ [][StoreNext]_vars

\* order sizing on its own, for every argument tried
SizingInit ==
    /\ CoreIdle
    /\ SideInitialBut("sizing")
    /\ sizing \in {SizingCall(a) : a \in SizingArgs}

SizingNext == size_order

SizingSpec == SizingInit /\ [][SizingNext]_vars

\* limit pricing on its own, for every argument tried
PricingInit ==
    /\ CoreIdle
    /\ SideInitialBut("pricing")
    /\ pricing \in {PricingCall(a) : a \in PricingArgs}

PricingNext == price_order

PricingSpec == PricingInit /\ [][PricingNext]_vars

\* the account cache on its own: Execution tasks read the buying power and
\* invalidate the cache after their orders
CacheInit == CoreIdle /\ SideInitial

CacheNext ==
    \/ \E c \in Callers : buying_power_enter(c)
    \/ \E c \in Callers, ok \in BOOLEAN : refresh_fetch(c, ok)
    \/ \E c \in Callers : refresh_store(c)
    \/ \E c \in Callers : buying_power_return(c)
    \/ invalidate
    \/ cache_expires

CacheSpec == CacheInit /\ [][CacheNext]_vars

\* the Strategy engine in HFT mode: a run of RunLength quotes handled one at
\* a time, and shorter runs whose handlers are in flight together
HftFeeds ==
    {[base |-> b, step |-> st, spread |-> sp, total |-> RunLength, parallel |-> 1] :
        b \in {0, 100 * UnitsPerDollar}, st \in 0..2, sp \in {0, 100}}
    \cup
    {[base |-> 100 * UnitsPerDollar, step |-> st, spread |-> 0,
      total |-> RaceLength, parallel |-> MaxInFlight] : st \in 0..2}

HftConfigs ==
    {[DefaultStrategyConfig EXCEPT !.evaluate_every_quotes = e, !.min_edge_bps = m] :
        e \in {1, 5}, m \in {10, 15}}

HftInit ==
    /\ CoreIdle
    /\ SideInitialBut("strat")
    /\ strat \in {StrategyNew(c, f) : c \in HftConfigs, f \in HftFeeds}

HftNext ==
    \/ strategy_recv
    \/ \E h \in strat.inflight : hft_task(h)

HftSpec == HftInit /\ [][HftNext]_vars

\* the same runs for every evaluate_every_quotes the configuration accepts,
\* 0 included
HftEveryConfigs ==
    {[DefaultStrategyConfig EXCEPT !.evaluate_every_quotes = e, !.min_edge_bps = m] :
        e \in {0, 1, 5}, m \in {10, 15}}

\* and short runs from a zero bid upwards, handled in parallel: the first
\* quote is invalid and the rise of the others exceeds every min_edge_bps
HftEveryFeeds ==
    HftFeeds \cup {[base |-> 0, step |-> st, spread |-> 0,
                    total |-> RaceLength, parallel |-> MaxInFlight] : st \in 1..2}

HftEveryInit ==
    /\ CoreIdle
    /\ SideInitialBut("strat")
    /\ strat \in {StrategyNew(c, f) : c \in HftEveryConfigs, f \in HftEveryFeeds}

HftEverySpec == HftEveryInit /\ [][HftNext]_vars

\* the Strategy engine in hybrid mode, for every gate configuration tried
HybridConfigs ==
    {[DefaultStrategyConfig EXCEPT !.mode = "hybrid", !.evaluate_every_quotes = 1,
         !.min_edge_bps = 0, !.gate_refresh_quotes = g,
         !.no_trade_cooldown_quotes = n, !.warmup_count = w] :
        g \in 1..MaxGateRefresh, n \in 0..MaxCooldown, w \in {0, 2}}

HybridFeeds ==
    {[DefaultFeed EXCEPT !.total = HybridLength, !.parallel = p, !.base = b] :
        p \in 1..MaxInFlight, b \in {0, 100 * UnitsPerDollar}}

HybridInit ==
    /\ CoreIdle
    /\ SideInitialBut("strat")
    /\ strat \in {StrategyNew(c, f) : c \in HybridConfigs, f \in HybridFeeds}

HybridNext ==
    \/ strategy_recv
    \/ \E h \in strat.inflight : hybrid_gate_step(h)
    \/ \E h \in strat.inflight, resp \in DirectorResponses : hybrid_director(h, resp)
    \/ \E h \in strat.inflight : hybrid_recheck(h)

HybridSpec == HybridInit /\ [][HybridNext]_vars

\* start and stop of the pipeline on their own
LifecycleInit == CoreIdle /\ SideInitial

LifecycleNext ==
    \/ start_trading
    \/ \E ok \in BOOLEAN : supervisor_starts(ok)
    \/ stop_trading
    \/ \E t \in Generations \X PipelineTasks : task_handles_event(t)

LifecycleSpec == LifecycleInit /\ [][LifecycleNext]_vars

\* the market-data stream on its own, for every reader
IngestInit ==
    /\ CoreIdle
    /\ SideInitialBut("ingest")
    /\ ingest \in {IngestNew(p) : p \in Providers}

IngestNext ==
    \/ \E s \in MarketSymbols, v \in FrameValues : stream_frame(s, v)
    \/ stream_step
    \/ \E c \in QuoteSubscribers : subscriber_handles(c)

IngestSpec == IngestInit /\ [][IngestNext]_vars

\* the Position Tracker on its own, called from tasks in parallel
TrackerInit == CoreIdle /\ SideInitial

TrackerNext ==
    \/ \E c \in Callers, op \in TrackerOps, key \in TrackerKeys : tracker_call(c, op, key)
    \/ \E c \in Callers : tracker_lock(c)
    \/ \E c \in Callers : tracker_return(c)

TrackerSpec == TrackerInit /\ [][TrackerNext]_vars

\* the Strategy engine in LLM mode on its own
LlmConfigs == {[no_trade_cooldown_quotes |-> n, warmup_count |-> w, threads |-> t] :
                  n \in 0..MaxLlmCooldown, w \in {0, 2}, t \in {1, 2}}

LlmInit == CoreIdle /\ SideInitialBut("llm")
           /\ llm \in {LlmStrategyNew(cfg) : cfg \in LlmConfigs}

LlmNext ==
    \/ llm_recv
    \/ llm_check
    \/ \E blocks \in BOOLEAN : llm_cleanup(blocks)
    \/ llm_spawn
    \/ \E resp \in LlmResponses : director_answers(resp)
    \/ \E ok \in BOOLEAN : quant_answers(ok)

LlmSpec == LlmInit /\ [][LlmNext]_vars

\* the LLM queue on its own: callers submit requests of either priority in
\* any order while the processor and the spawned calls run
QueueConfigs == {LLMQueueNew(m, n) : m \in 0..MaxConcurrent, n \in 1..MaxQueueSize}

QueueInit == CoreIdle /\ SideInitialBut("llm_queue") /\ llm_queue \in QueueConfigs

QueueNext ==
    \/ \E priority \in Priorities : chat(priority)
    \/ process_queue_select
    \/ process_queue_acquire
    \/ \E c \in llm_queue.calls : client_chat(c)
    \/ \E c \in llm_queue.calls : client_chat_returns(c)
    \/ \E c \in llm_queue.calls : drop_permit(c)

QueueSpec == QueueInit /\ [][QueueNext]_vars

\* the rate limiter on its own: Execution tasks call try_acquire in parallel
RateInit == CoreIdle /\ SideInitial

RateNext ==
    \/ LimiterTick
    \/ \E c \in Callers, s \in RateSymbols : try_acquire_enter(c, s)
    \/ \E c \in Callers : try_acquire_check(c)
    \/ \E c \in Callers : try_acquire_insert(c)

RateSpec == RateInit /\ [][RateNext]_vars

----------------------------------------------------------------------------
\* Properties

PendingBuys(s) == {id \in DOMAIN pending_orders :
                     pending_orders[id].symbol = s /\ pending_orders[id].side = "buy"}

\* C1: when an execution task whose buy the adapter acknowledged completes,
\* the Tracker holds exactly one of a pending buy keyed by the acknowledged
\* order id and a position for the symbol - not both, not neither
C1_BuyExactlyOne ==
    obs.op = "buy_done" =>
        ((obs.id \in PendingBuys(obs.sym)) # has_position(positions, obs.sym))

\* C2: at any time at most one buy per symbol is outstanding, as a pending
\* buy or as an open position
C2_AtMostOneBuy ==
    \A s \in Symbols :
        Cardinality(PendingBuys(s)) + (IF has_position(positions, s) THEN 1 ELSE 0) <= 1

\* C3: an event with current_price <= stop_loss for a tracked position that is
\* not closing and has an open_order_id makes the Monitor, within that
\* iteration, publish a sell signal with reason stop_loss and mark the
\* position closing
C3_StopLossExit ==
    (obs.end /\ obs.pre = "sl_hit") =>
        /\ obs.sig = "stop_loss"
        /\ has_position(positions, obs.sym) => positions[obs.sym].is_closing

\* C4: once a position is marked closing, with a quote in the Market Store
\* and an adapter that acknowledges the sell, the position is eventually
\* removed from the Tracker
C4_ExitCompletes ==
    \A s \in Symbols :
        (has_position(positions, s) /\ positions[s].is_closing /\ store[s] # 0)
            ~> (~has_position(positions, s) \/ obs.op = "sell_failed")

\* C5: a component whose receiver has reported Lagged keeps its event loop
\* running
C5_LaggedNonFatal ==
    \A c \in Components : bus.lagged[c] => bus.running[c]

\* C6: at the end of an iteration in which the Monitor found a pending sell
\* cancelled or expired, that order is no longer in the Tracker and the
\* position does not refer to it
C6_CancelClearsLink ==
    obs.end =>
        \A id \in obs.found :
            /\ id \notin DOMAIN pending_orders
            /\ has_position(positions, obs.sym) => positions[obs.sym].open_order_id # id

\* C7: over the lifetime of a position the Monitor calls the recreation of
\* the protective sell at most 3 times, whichever path makes the call
C7_AtMostThreeAttempts ==
    \A s \in Symbols : recreations[s] <= MAX_RECREATE_ATTEMPTS

C9_RecreateAdoptsVenueQty ==
    (obs.op = "recreated" /\ obs.venue # 0 /\ obs.venue # obs.tracked) =>
        /\ obs.id \in DOMAIN pending_orders
        /\ pending_orders[obs.id] = PendingOrder(obs.sym, "sell", obs.price, obs.venue)
        /\ has_position(positions, obs.sym)
        /\ positions[obs.sym].qty = obs.venue
        /\ positions[obs.sym].open_order_id = obs.id

\* C10: a recreate attempt submits at most twice; when the retry after an
\* insufficient-balance error is acknowledged, the position has the freshly
\* read qty and the retry's order id, and a matching pending sell is registered
C10_SingleRetry ==
    /\ mon.subs <= 2
    /\ obs.subs <= 2
    /\ obs.op = "retried" =>
        /\ obs.subs = 2
        /\ has_position(positions, obs.sym)
        /\ positions[obs.sym].qty = obs.venue
        /\ positions[obs.sym].open_order_id = obs.id
        /\ obs.id \in DOMAIN pending_orders
        /\ pending_orders[obs.id] =
               PendingOrder(obs.sym, "sell", positions[obs.sym].take_profit, obs.venue)

\* a retry was acknowledged with a fresh qty other than the tracked one
C10_Witness ==
    obs.op = "retried" /\ obs.venue # obs.tracked

C12_ExpiryClearsLink ==
    obs.end =>
        \A id \in obs.expired :
            has_position(positions, obs.sym) =>
                positions[obs.sym].open_order_id # id

\* C13: two try_acquire calls for one symbol made less than min_interval
\* apart never both return true, also when different Execution tasks make
\* them at the same time.
C13_RateLimitedPerSymbol ==
    \A w1, w2 \in limiter.wins :
        (w1 # w2 /\ w1.sym = w2.sym) =>
            \/ w1.now - w2.now >= MinIntervalTicks
            \/ w2.now - w1.now >= MinIntervalTicks

\* C14: an event published successfully is received by every component that
\* was subscribed when it was published and has not lagged, and each
\* component receives the events in the order of publication, without gaps:
\* what a component has received is always the run of events from its
\* subscription on, and unless it lagged it always catches up with the
\* channel again.
C14_BusDelivery ==
    /\ [](\A c \in Components :
            \A i \in 1..Len(bus.got[c]) : bus.got[c][i] = bus.start[c] + i)
    /\ \A c \in Components :
          []<>(\/ bus.start[c] = NoTime
               \/ bus.lagged[c]
               \/ Len(bus.got[c]) = bus.tail - bus.start[c])

\* a component that subscribed after the first event has received two events
\* while another component lagged
C14_Witness ==
    \E c, d \in Components :
        /\ bus.start[c] > 0
        /\ Len(bus.got[c]) >= 2
        /\ bus.lagged[d]

\* every history holds the most recent insertions, oldest first, and no
\* more of them than history_limit
HistoryBounded ==
    \A k \in HistoryKinds, s \in MarketSymbols :
        /\ Len(history.queues[k][s]) <= history.limit
        /\ history.queues[k][s] = LastInserted(history.inserted[k][s], history.limit)

\* C15 as stated: for every history_limit, a stored history never exceeds
\* history_limit and is the most recent insertions in insertion order.
C15_HistoryBoundedAnyLimit == HistoryBounded

\* C15 amended: for history_limit >= 1, a stored history never exceeds
\* history_limit, an insertion at capacity drops exactly the oldest element,
\* and the history is the most recent insertions in insertion order.
C15_HistoryBounded == history.limit >= 1 => HistoryBounded

\* a full history has taken one more quote
C15_Witness ==
    /\ history.limit >= 1
    /\ \E s \in MarketSymbols :
          /\ history.inserted["quotes"][s] > history.limit
          /\ Len(history.queues["quotes"][s]) = history.limit

\* C16: the position registered after a filled buy has its TP and SL
\* computed from the price at which the venue filled the order, not from a
\* price carried in the pending order: take_profit = p * (1 + tp_pct/100) and
\* stop_loss = p * (1 - sl_pct/100) for the fill price p.
C16_TpSlFromFillPrice ==
    (obs.op \in {"buy_filled", "buy_filled_no_tp"} /\ has_position(positions, obs.sym)) =>
        /\ positions[obs.sym].entry_price = obs.fill
        /\ positions[obs.sym].take_profit = TakeProfitOf(obs.sym, obs.fill)
        /\ positions[obs.sym].stop_loss = StopLossOf(obs.sym, obs.fill)

\* the sizing returned is within [min, min(max, 95% of the balance)], and
\* nothing is returned when 95% of the balance is below min
SizingWithinLimits ==
    LET a == sizing.args
        r == sizing.result
    IN /\ r.some => /\ a.min_order <= r.notional
                    /\ r.notional <= a.max_order
                    /\ 100 * r.notional <= 95 * a.buying_power
       /\ 95 * a.buying_power < 100 * a.min_order => ~r.some

\* C17 as stated: for all price > 0, balance > 0, min, max and pct,
\* compute_order_sizing returns a notional in [min, min(max, 0.95 * balance)]
\* or None, and None whenever 0.95 * balance < min.
C17_SizingAnyLimits ==
    (sizing.done /\ sizing.args.price > 0 /\ sizing.args.buying_power > 0)
        => SizingWithinLimits

\* C17 amended: the same for all price > 0, balance > 0, pct and min <= max.
C17_Sizing ==
    (/\ sizing.done /\ sizing.args.price > 0 /\ sizing.args.buying_power > 0
     /\ sizing.args.min_order <= sizing.args.max_order)
        => SizingWithinLimits

\* a sizing cut down to 95% of the balance, and still at least min
C17_Witness ==
    /\ sizing.done
    /\ sizing.result.some
    /\ sizing.args.min_order <= sizing.args.max_order
    /\ sizing.args.min_order > 0
    /\ 100 * sizing.result.notional = 95 * sizing.args.buying_power
    /\ sizing.result.notional < sizing.args.max_order

\* the price returned is between mid and ask for a buy, between bid and mid
\* for a sell
PriceWithinBand ==
    LET a == pricing.args
        mid == (a.bid + a.ask) * 10000
    IN IF a.side = "buy"
       THEN mid <= pricing.result /\ pricing.result <= a.ask * PriceScale
       ELSE a.bid * PriceScale <= pricing.result /\ pricing.result <= mid

\* C18 as stated: for every quote with 0 < bid <= ask and every
\* aggression_bps, the buy price is in [mid, ask] and the sell price in
\* [bid, mid].
C18_PriceBandAnyBps ==
    (pricing.done /\ 0 < pricing.args.bid /\ pricing.args.bid <= pricing.args.ask)
        => PriceWithinBand

\* C18 amended: the same for every aggression_bps >= 0.
C18_PriceBand ==
    (/\ pricing.done /\ 0 < pricing.args.bid /\ pricing.args.bid <= pricing.args.ask
     /\ pricing.args.aggression_bps >= 0)
        => PriceWithinBand

\* a buy priced strictly between mid and ask
C18_Witness ==
    /\ pricing.done
    /\ pricing.args.side = "buy"
    /\ pricing.args.aggression_bps > 0
    /\ pricing.args.bid < pricing.args.ask
    /\ (pricing.args.bid + pricing.args.ask) * 10000 < pricing.result
    /\ pricing.result < pricing.args.ask * PriceScale

\* C19: handling the venue status canceled for the same pending buy a second
\* time leaves the Tracker (positions and pending orders) exactly as the first
\* handling left it.
C19_CancelIdempotent ==
    obs.op = "buy_canceled" =>
        handle_buy_canceled(Tracker, obs.id, obs.sym) = Tracker

\* a pending buy was found canceled while another order stays pending
C19_Witness ==
    /\ obs.op = "buy_canceled"
    /\ obs.id \notin DOMAIN pending_orders
    /\ pending_orders # <<>>

\* C20: a buying_power() call that begins after an invalidation returns an
\* account fetched from the exchange after that invalidation, not a value
\* cached before it, whatever other calls and refreshes are in progress
\* (calls whose own get_account failed set aside).
C20_InvalidateForcesFetch ==
    (cache.last.by # 0 /\ cache.last.need > 0 /\ ~cache.last.failed) =>
        cache.last.stamp >= cache.last.need

\* C21: the sell path of Execution removes the position only when the
\* adapter has acknowledged the market sell; the steps before the submission
\* and a failed submission leave the positions as they are.
C21_SellRemovesOnAck ==
    [][/\ obs'.op = "sell_failed" => positions' = positions
       /\ obs'.op = "sell_done" => ~has_position(positions', obs'.sym)
       /\ (\E t \in TaskSet, q \in 0..MaxQty : ExecSellStart(t, q))
             => positions' = positions]_vars

\* a market sell has failed and the position is still tracked
C21_Witness ==
    /\ obs.op = "sell_failed"
    /\ has_position(positions, obs.sym)
    /\ positions[obs.sym].qty = obs.qty

\* C22: in hybrid mode, once the Director has answered no_trade, none of the
\* next no_trade_cooldown_quotes qualifying quotes emits a signal, and the
\* next Director call is triggered by quote no_trade_cooldown_quotes + 1
\* after the answer.
C22_GateClosedForCooldown ==
    (strat.cfg.mode = "hybrid" /\ strat.closed.open) =>
        /\ \A n \in strat.closed.signal_at : n > strat.cfg.no_trade_cooldown_quotes
        /\ strat.closed.refresh_at # 0 =>
              strat.closed.refresh_at = strat.cfg.no_trade_cooldown_quotes + 1

\* C23: with evaluate_every_quotes = 5 and min_edge_bps = 10, the run of 20
\* quotes whose mid rises in equal steps from 100.00 to 100.20, handled one
\* at a time, emits exactly one buy signal, at quote 15.
C23_OneSignalAtQuote15 ==
    ( /\ strat.cfg.mode = "hft"
      /\ strat.cfg.evaluate_every_quotes = 5 /\ strat.cfg.min_edge_bps = 10
      /\ strat.feed = [base |-> 100 * UnitsPerDollar, step |-> 1, spread |-> 0,
                       total |-> RunLength, parallel |-> 1]
      /\ strat.published = RunLength /\ strat.inflight = {} )
    => strat.signals = <<15>>

\* C24: whatever the scheduling of the handlers, the HFT state of the symbol
\* is the one its accepted quotes leave when applied in the order they were
\* published.
C24_QuotesInArrivalOrder ==
    strat.cfg.mode = "hft" =>
        /\ strat.hft_state.mids =
              mids_in_order(strat.feed, {strat.accepted[i] : i \in DOMAIN strat.accepted},
                            strat.published)
        /\ strat.hft_state.quotes_since_eval =
              Len(strat.accepted) % strat.cfg.evaluate_every_quotes

\* C25: stop_trading ends every task that start_trading spawned: no task of a
\* stopped pipeline handles another event, nothing runs while the system is
\* stopped, and after start, stop, start each component runs once.
C25_StopCascades ==
    /\ life.late = {}
    /\ life.trading_handle = None => life.running = {}
    /\ \A c \in PipelineTasks :
          Cardinality({g \in Generations : <<g, c>> \in life.running}) <= 1

\* the turn of the sync loop that takes venue position p
SyncTurn(p) ==
    mon.pc = "sync_loop" /\ p \in mon.sync /\ p \notin mon'.sync

\* venue position p was adopted: tracked with its average entry price, the
\* default exits and no order, and handed to the recreate path
SyncAdopted(p) ==
    /\ has_position(positions', p.symbol)
    /\ positions'[p.symbol].entry_price = p.avg_entry_price
    /\ positions'[p.symbol].qty = p.qty
    /\ positions'[p.symbol].take_profit = TakeProfitOf(p.symbol, p.avg_entry_price)
    /\ positions'[p.symbol].stop_loss = StopLossOf(p.symbol, p.avg_entry_price)
    /\ positions'[p.symbol].open_order_id = None
    /\ mon'.pc = "rc_fetch" /\ mon'.sym = p.symbol /\ mon'.caller = "sync"

C27_OnlyValidQuotes ==
    /\ \A s \in MarketSymbols :
          ingest.latest[s] # NoQuote => valid_quote(ingest.latest[s])
    /\ \A c \in QuoteSubscribers : \A i \in DOMAIN ingest.inbox[c] :
          valid_quote(ingest.inbox[c][i])

\* C28: when a subscriber handles a quote event, the store's latest quote
\* for the event's symbol is that quote or a later one.
C28_StoreBeforePublish ==
    ingest.seen # NoSeen => ingest.seen.latest >= ingest.seen.k

\* a subscriber has handled a quote event while the store already held a
\* later quote for the symbol
C28_Witness ==
    /\ ingest.seen # NoSeen
    /\ ingest.seen.latest > ingest.seen.k

\* C29: the Tracker's public methods are atomic: once the calls made have
\* returned, the two maps and every return value are those of the same calls
\* executed one after the other in some order; adds on distinct keys all
\* leave their entry.
C29_TrackerMethodsAtomic ==
    TrackerQuiet =>
        /\ \E p \in CallOrders(Len(trk.log)) :
              LET r == Replay(trk.log, p, Len(trk.log))
              IN /\ r.maps = trk.maps
                 /\ \A n \in 1..Len(trk.log) : r.rets[n] = trk.log[n].ret
        /\ \A x \in TrackerMaps :
              LET adds == {n \in 1..Len(trk.log) :
                              /\ trk.log[n].op \in {"add_position", "add_pending_order"}
                              /\ MapOf(trk.log[n].op) = x}
              IN ( /\ \A n \in 1..Len(trk.log) : MapOf(trk.log[n].op) = x => n \in adds
                   /\ \A a, b \in adds : a # b => trk.log[a].key # trk.log[b].key )
                 => Cardinality({k \in TrackerKeys : trk.maps[x][k] # 0}) = Cardinality(adds)

\* two adds on distinct keys of one map were in progress together and both
\* have returned
C29_Witness ==
    /\ TrackerQuiet
    /\ Len(trk.log) >= 2
    /\ trk.log[1].op = "add_position" /\ trk.log[2].op = "add_position"
    /\ trk.log[1].key # trk.log[2].key
    /\ trk.log[2].overlap
    /\ \A k \in TrackerKeys : trk.maps["positions"][k] # 0

\* C30: at the end of every Monitor iteration, a tracked position whose
\* open_order_id is set refers to a pending sell of its symbol that is in
\* the Tracker.
C30_LinkedOrderIsPending ==
    obs.end =>
        \A s \in Symbols :
            (has_position(positions, s) /\ positions[s].open_order_id # None) =>
                /\ positions[s].open_order_id \in DOMAIN pending_orders
                /\ pending_orders[positions[s].open_order_id].side = "sell"
                /\ pending_orders[positions[s].open_order_id].symbol = s

\* C31: a step of recreate_limit_sell_order, which works on the copy of the
\* position it was called with, never puts a position back into the Tracker
\* that has been removed since the copy was taken.
C31_NoResurrection ==
    [][(/\ mon.pc \in {"rc_fetch", "rc_submit", "rc_refetch", "rc_retry"}
        /\ ~has_position(positions, mon.sym))
          => ~has_position(positions', mon.sym)]_vars

\* C32: a position that is marked is_closing stays marked for as long as its
\* symbol is tracked: no step clears the flag of a tracked position.
C32_ClosingIsSticky ==
    [][\A s \in Symbols :
          (has_position(positions, s) /\ positions[s].is_closing)
             => (~has_position(positions', s) \/ positions'[s].is_closing)]_vars

\* C33: while a buy that the venue has acknowledged is on its way to a
\* position (the fast engine between the acknowledgement and the
\* registration, the Monitor between dropping the filled pending buy and
\* registering the position), the Tracker shows a pending buy or a position
\* for the symbol.
C33_NoUntrackedGap ==
    \A s \in Symbols :
        (\/ mon.pc = "buy_tp" /\ mon.sym = s
         \/ \E t \in TaskSet : t.kind = "buy" /\ t.pc = "acked" /\ t.sym = s)
            => (has_position(positions, s) \/ PendingBuys(s) # {})

\* C34: every pending sell in the Tracker is for a symbol whose position is
\* tracked; a removal of the position leaves no pending sell of its symbol
\* behind.
C34_SellsHavePositions ==
    \A id \in DOMAIN pending_orders :
        pending_orders[id].side = "sell"
            => has_position(positions, pending_orders[id].symbol)

\* C35: when the Monitor starts a recreation for a tracked position, from
\* the position checks or from the handling of a cancelled pending sell, the
\* previous recreation attempt recorded for that position is at least the
\* cooldown old.
C35_RecreationsSpaced ==
    [][(/\ mon.pc # "rc_fetch"
        /\ mon'.pc = "rc_fetch"
        /\ mon'.caller \in {"police", "cancel"})
          => (\/ positions[mon'.sym].last_recreate_attempt = NoTime
              \/ positions[mon'.sym].last_recreate_attempt >= RECREATE_COOLDOWN_TICKS)]_vars

\* C36: when the position checks remove a position because its
\* recreate_attempts has reached the limit, none of the attempts counted for
\* it had placed a protective sell.
C36_AbandonedAfterFailuresOnly ==
    [][(/\ mon.pc = "orders" /\ mon.todo = {} /\ mon'.pc = "idle"
        /\ has_position(positions, mon.sym)
        /\ ~positions[mon.sym].is_closing
        /\ positions[mon.sym].open_order_id = None
        /\ positions[mon.sym].recreate_attempts >= MAX_RECREATE_ATTEMPTS
        /\ ~has_position(positions', mon.sym))
          => positions[mon.sym].placed = 0]_vars

\* the position checks are about to run for an orphaned position that is
\* past the attempt limit and cooldown tests, and a pending sell of its
\* symbol is in the Tracker (and in the iteration's snapshot)
LinkDue ==
    /\ mon.pc = "orders" /\ mon.todo = {}
    /\ has_position(positions, mon.sym)
    /\ ~positions[mon.sym].is_closing
    /\ positions[mon.sym].open_order_id = None
    /\ positions[mon.sym].recreate_attempts < MAX_RECREATE_ATTEMPTS
    /\ \/ positions[mon.sym].last_recreate_attempt = NoTime
       \/ positions[mon.sym].last_recreate_attempt >= RECREATE_COOLDOWN_TICKS
    /\ \E id \in DOMAIN pending_orders \cap DOMAIN mon.snap :
           pending_orders[id].symbol = mon.sym /\ pending_orders[id].side = "sell"

\* C37: for an orphaned position with a pending sell of its symbol in the
\* Tracker, the position checks set open_order_id to the id of a pending
\* sell of the symbol and end the iteration: no order is submitted,
\* recreate_attempts is unchanged and no exit signal is published.
C37_LinkAndMoveOn ==
    [][(LinkDue /\ mon'.pc = "idle")
          => /\ has_position(positions', mon.sym)
             /\ positions'[mon.sym].open_order_id \in
                    {id \in DOMAIN mon.snap : mon.snap[id].symbol = mon.sym
                                              /\ mon.snap[id].side = "sell"}
             /\ next_id' = next_id
             /\ positions'[mon.sym].recreate_attempts = positions[mon.sym].recreate_attempts
             /\ obs'.sig = ""
             /\ tasks' = tasks]_vars

\* C38: in LLM mode, once the Director has answered no_trade, an analysis is
\* started only by an event that was received after no_trade_cooldown_quotes
\* later events, and each of those later events is skipped and lowers the
\* cooldown counter by exactly one.
C38_CooldownAfterNoTrade ==
    [][/\ (llm.pc = "spawn" /\ llm'.last = "started" /\ llm.since # NoAnswer)
             => llm.since > llm.cfg.no_trade_cooldown_quotes
       /\ (/\ llm.pc = "check" /\ llm'.pc # "check"
           /\ llm.since >= 1 /\ llm.since <= llm.cfg.no_trade_cooldown_quotes)
             => (/\ llm'.last = "skipped"
                 /\ llm'.cooldowns = llm.cooldowns - 1)]_vars

\* what a handler of HFT mode may do to the state of the symbol: a rejected
\* quote leaves counter, ring and signals as they are; a signal comes only
\* from the quote that brings the counter to evaluate_every_quotes, which
\* resets it; there is no more than one signal per evaluate_every_quotes
\* accepted quotes
HftHandlerStep ==
    \A h \in strat.inflight :
        (strat.cfg.mode = "hft" /\ h.pc = "hft" /\ strat'.inflight = strat.inflight \ {h}) =>
            /\ ~hft_accepts(strat.cfg, QuoteOf(strat.feed, h.k))
                  => (strat'.hft_state = strat.hft_state /\ strat'.signals = strat.signals)
            /\ strat'.signals # strat.signals
                  => /\ strat'.signals = Append(strat.signals, h.k)
                     /\ strat.hft_state.quotes_since_eval + 1 = strat.cfg.evaluate_every_quotes
                     /\ strat'.hft_state.quotes_since_eval = 0
            /\ Len(strat'.signals) * strat.cfg.evaluate_every_quotes <= Len(strat'.accepted)

\* C39 as stated, for every evaluate_every_quotes
C39_SignalOnlyAtEvaluationAnyEvery == [][HftHandlerStep]_vars

\* C39: in HFT mode with evaluate_every_quotes >= 1, a signal is emitted only
\* by the accepted quote that brings the counter to evaluate_every_quotes and
\* resets it, at most one signal per evaluate_every_quotes accepted quotes;
\* rejected quotes change neither the counter nor the mids ring.
C39_SignalOnlyAtEvaluation ==
    [][strat.cfg.evaluate_every_quotes >= 1 => HftHandlerStep]_vars

\* a run with rejected and accepted quotes has emitted a signal at an
\* evaluation every 5 quotes
C39_Witness ==
    /\ strat.cfg.mode = "hft" /\ strat.cfg.evaluate_every_quotes = 5
    /\ strat.inflight = {}
    /\ Len(strat.signals) >= 1
    /\ Len(strat.accepted) < strat.published
    /\ strat.hft_state.quotes_since_eval = 0

\* C40: at any time at most llm_max_concurrent LLM client calls are in
\* flight, whatever the sequence and interleaving of high- and
\* normal-priority requests submitted to the LLM queue
C40_BoundedConcurrency ==
    Cardinality(in_flight(llm_queue)) <= llm_queue.cfg.max_concurrent

\* the limit is reached with calls of both priorities in flight while the
\* processor waits for a permit and requests of both priorities are queued
C40_Witness ==
    /\ llm_queue.cfg.max_concurrent = MaxConcurrent
    /\ Cardinality(in_flight(llm_queue)) = MaxConcurrent
    /\ {c.req.priority : c \in in_flight(llm_queue)} = Priorities
    /\ llm_queue.pc = "acquire"
    /\ llm_queue.permits = 0
    /\ llm_queue.high_rx # <<>>
    /\ llm_queue.normal_rx # <<>>

====
